---- MODULE Spec2Model ----
(***************************************************************************)
(* Model of server/utils/commandParser.js: the command-template engine     *)
(* (argument placeholders, @file includes, !command execution under an     *)
(* allowlist).  Text is a sequence of one-character strings.               *)
(***************************************************************************)
EXTENDS Integers, Sequences, FiniteSets, TLC

VARIABLES
    pure,       \* one call of a pure function: [fn, in, out, done]
    fs,         \* the file system: resolved path -> content, or an error code
    incIn,      \* the arguments of the top-level processFileIncludes call
    stack,      \* processFileIncludes: the frames of the awaited call chain
    checks,     \* every isPathSafe call made: [name, depth, marker, safe]
    reads,      \* every fs.readFile call made: [path, name, depth, marker]
    incOut,     \* outcome of the top-level processFileIncludes call
    bash,       \* processBashCommands: the locals of the one call
    spawned,    \* every execFile call made: [marker, command, args]
    running,    \* markers whose child process has not completed yet
    spliced,    \* every splice of a command's output made: [marker, output]
    bashOut,    \* outcome of the processBashCommands call
    phase,      \* the pass of the expansion that is running
    calls,      \* two calls that run interleaved: their inputs, locals, results
    tree        \* the FileTree component: its state, its fetches, its handlers

vars == <<pure, fs, incIn, stack, checks, reads, incOut, bash, spawned, running, spliced,
          bashOut, phase, calls, tree>>

----------------------------------------------------------------------------
(* Characters and strings                                                  *)

NL == "\n"
CR == "\r"
TAB == "\t"
SP == " "
BS == "\\"
SQ == "'"
DQ == "\""
\* the backtick, which a TLA+ string cannot hold: it is written by its name
BT == "BACKTICK"
\* two control characters, escape and delete, written by their names
ESC == "ESC"
DEL == "DEL"

\* \s of a JavaScript regular expression, over the characters of the model
IsSpace(c) == c \in {SP, NL, CR, TAB}

\* a line terminator: what ^ (with the m flag) follows and what . refuses
IsLineTerminator(c) == c \in {NL, CR}

\* s.slice(from - 1): the suffix that starts at from
From(s, from) == SubSeq(s, from, Len(s))

StartsWith(s, p) == Len(p) <= Len(s) /\ SubSeq(s, 1, Len(p)) = p

\* s.indexOf(p), 1-based; 0 when p does not occur
IndexOf(s, p) ==
    LET hits == {i \in 1..(Len(s) - Len(p) + 1) : SubSeq(s, i, i + Len(p) - 1) = p}
    IN  IF hits = {} THEN 0 ELSE CHOOSE i \in hits : \A j \in hits : i <= j

Contains(s, p) == IndexOf(s, p) # 0

RECURSIVE Join(_, _)
\* Array.prototype.join
Join(ss, sep) ==
    IF ss = <<>> THEN <<>>
    ELSE IF Len(ss) = 1 THEN Head(ss)
    ELSE Head(ss) \o sep \o Join(Tail(ss), sep)

RECURSIVE TrimStart(_)
TrimStart(s) == IF s # <<>> /\ IsSpace(Head(s)) THEN TrimStart(Tail(s)) ELSE s

RECURSIVE TrimEnd(_)
TrimEnd(s) ==
    IF s # <<>> /\ IsSpace(s[Len(s)]) THEN TrimEnd(SubSeq(s, 1, Len(s) - 1)) ELSE s

\* String.prototype.trim
Trim(s) == TrimEnd(TrimStart(s))

RECURSIVE GetSubstitution(_, _, _, _)
\* The replacement text of String.prototype.replace(string, string): $$ is a
\* dollar, $& the matched text, $BT the text before it, $' the text after it;
\* any other $ stays (a string pattern has no captures).
GetSubstitution(repl, matched, before, after) ==
    IF repl = <<>> THEN <<>>
    ELSE IF Head(repl) = "$" /\ Len(repl) >= 2 /\ repl[2] \in {"$", "&", BT, "'"}
    THEN (CASE repl[2] = "$" -> <<"$">>
            [] repl[2] = "&" -> matched
            [] repl[2] = BT  -> before
            [] OTHER         -> after)
         \o GetSubstitution(From(repl, 3), matched, before, after)
    ELSE <<Head(repl)>> \o GetSubstitution(Tail(repl), matched, before, after)

\* result.replace(pattern, repl) with a string pattern: the FIRST occurrence
\* of pattern in s is replaced; s is returned as it is when there is none.
ReplaceFirst(s, pattern, repl) ==
    LET i == IndexOf(s, pattern)
    IN  IF i = 0 THEN s
        ELSE LET before == SubSeq(s, 1, i - 1)
                 after  == From(s, i + Len(pattern))
             IN  before \o GetSubstitution(repl, pattern, before, after) \o after

----------------------------------------------------------------------------
(* The two marker patterns                                                 *)

\* the length of the longest run of characters from position i on that
\* satisfy Ok (a greedy or lazy quantifier over a character class)
RunLen(s, i, Ok(_)) ==
    LET bad == {j \in i..Len(s) : ~Ok(s[j])}
    IN  IF i > Len(s) THEN 0
        ELSE IF bad = {} THEN Len(s) - i + 1
        ELSE (CHOOSE j \in bad : \A k \in bad : j <= k) - i

NotSpace(c) == ~IsSpace(c)
Dot(c) == ~IsLineTerminator(c)

\* ^ of a pattern with the m flag, at position i
AtLineStart(s, i) == i = 1 \/ (i - 1 <= Len(s) /\ IsLineTerminator(s[i - 1]))

\* One attempt of /(?:^|\s)@([^\s]+)/m at position i: the match as
\* [index, full, name], or [index |-> 0] when the pattern does not match there.
\* The alternative ^ is tried before the alternative \s.
IncludeMatchAt(s, i) ==
    LET viaStart == AtLineStart(s, i) /\ i <= Len(s) /\ s[i] = "@"
                    /\ RunLen(s, i + 1, NotSpace) >= 1
        viaSpace == i + 1 <= Len(s) /\ IsSpace(s[i]) /\ s[i + 1] = "@"
                    /\ RunLen(s, i + 2, NotSpace) >= 1
    IN  IF viaStart
        THEN LET n == RunLen(s, i + 1, NotSpace)
             IN  [index |-> i, full |-> SubSeq(s, i, i + n),
                  name |-> SubSeq(s, i + 1, i + n)]
        ELSE IF viaSpace
        THEN LET n == RunLen(s, i + 2, NotSpace)
             IN  [index |-> i, full |-> SubSeq(s, i, i + 1 + n),
                  name |-> SubSeq(s, i + 2, i + 1 + n)]
        ELSE [index |-> 0]

\* One attempt of /(?:^|\n)!(.+?)(?=\n|$)/ (no m flag) at position i: the
\* match as [index, full, line], or [index |-> 0].  The lazy .+? stops at
\* the first place where a newline or the end of the text follows; the dot
\* matches no line terminator, so a run that ends at a carriage return fails.
CommandMatchAt(s, i) ==
    LET bang == IF i = 1 /\ Len(s) >= 1 /\ s[1] = "!" THEN 1
                ELSE IF i + 1 <= Len(s) /\ s[i] = NL /\ s[i + 1] = "!" THEN i + 1
                ELSE 0
        n    == IF bang = 0 THEN 0 ELSE RunLen(s, bang + 1, Dot)
        stop == bang + n + 1
    IN  IF bang # 0 /\ n >= 1 /\ (stop > Len(s) \/ s[stop] = NL)
        THEN [index |-> i, full |-> SubSeq(s, i, bang + n),
              line |-> SubSeq(s, bang + 1, bang + n)]
        ELSE [index |-> 0]

\* [...content.matchAll(pattern)] with the g flag: the matches left to right,
\* each search starting where the previous match ended
RECURSIVE IncludeMatchesFrom(_, _)
IncludeMatchesFrom(s, i) ==
    IF i > Len(s) THEN <<>>
    ELSE LET m == IncludeMatchAt(s, i)
         IN  IF m.index = 0 THEN IncludeMatchesFrom(s, i + 1)
             ELSE <<m>> \o IncludeMatchesFrom(s, i + Len(m.full))

RECURSIVE CommandMatchesFrom(_, _)
CommandMatchesFrom(s, i) ==
    IF i > Len(s) THEN <<>>
    ELSE LET m == CommandMatchAt(s, i)
         IN  IF m.index = 0 THEN CommandMatchesFrom(s, i + 1)
             ELSE <<m>> \o CommandMatchesFrom(s, i + Len(m.full))

\* content.matchAll(includePattern)
IncludeMatches(content) == IncludeMatchesFrom(content, 1)

\* content.matchAll(commandPattern)
CommandMatches(content) == CommandMatchesFrom(content, 1)

----------------------------------------------------------------------------
(* path (POSIX) and isPathSafe                                             *)

\* process.cwd(), which path.resolve falls back on for a relative base
Cwd == <<"/", "w">>

RECURSIVE SplitOn(_, _)
\* s.split(sep) for a one-character separator
SplitOn(s, sep) ==
    LET i == IndexOf(s, <<sep>>)
    IN  IF i = 0 THEN <<s>>
        ELSE <<SubSeq(s, 1, i - 1)>> \o SplitOn(From(s, i + 1), sep)

RECURSIVE NormalizeSegments(_, _)
\* normalizeString of an absolute path: empty and "." segments vanish, ".."
\* removes the segment before it and is dropped at the root
NormalizeSegments(segs, acc) ==
    IF segs = <<>> THEN acc
    ELSE LET h == Head(segs)
         IN  IF h = <<>> \/ h = <<".">> THEN NormalizeSegments(Tail(segs), acc)
             ELSE IF h = <<".", ".">>
             THEN NormalizeSegments(Tail(segs),
                                    IF acc = <<>> THEN acc
                                    ELSE SubSeq(acc, 1, Len(acc) - 1))
             ELSE NormalizeSegments(Tail(segs), Append(acc, h))

\* path.isAbsolute
IsAbsolute(p) == p # <<>> /\ Head(p) = "/"

\* the segments of path.resolve(base, file): the rightmost absolute argument
\* wins, and the working directory is used when neither is absolute
ResolveSegments(base, file) ==
    LET joined == IF IsAbsolute(file) THEN file
                  ELSE IF IsAbsolute(base) THEN base \o <<"/">> \o file
                  ELSE Cwd \o <<"/">> \o base \o <<"/">> \o file
    IN  NormalizeSegments(SplitOn(joined, "/"), <<>>)

\* path.resolve(base, file)
Resolve(base, file) == <<"/">> \o Join(ResolveSegments(base, file), <<"/">>)

\* the number of leading segments two resolved paths share
RECURSIVE CommonPrefix(_, _)
CommonPrefix(a, b) ==
    IF a # <<>> /\ b # <<>> /\ Head(a) = Head(b)
    THEN 1 + CommonPrefix(Tail(a), Tail(b)) ELSE 0

\* path.relative(from, to) of two resolved paths: one ".." for every segment
\* of from below the shared prefix, then the rest of to
Relative(fromSegs, toSegs) ==
    LET c  == CommonPrefix(fromSegs, toSegs)
        up == [i \in 1..(Len(fromSegs) - c) |-> <<".", ".">>]
    IN  Join(up \o SubSeq(toSegs, c + 1, Len(toSegs)), <<"/">>)

\* relative.startsWith('..')
StartsWithDotDot(relative) == StartsWith(relative, <<".", ".">>)

isPathSafe(filePath, basePath) ==
    LET resolvedPath == ResolveSegments(basePath, filePath)
        resolvedBase == ResolveSegments(basePath, <<>>)
        relative     == Relative(resolvedBase, resolvedPath)
    IN  /\ relative # <<>>
        /\ ~StartsWithDotDot(relative)
        /\ ~IsAbsolute(relative)

----------------------------------------------------------------------------
(* processFileIncludes                                                     *)

MAX_INCLUDE_DEPTH == 3

NoError == [kind |-> "none", code |-> "", name |-> <<>>]

\* new Error(`Maximum include depth (3) exceeded`)
DepthError == [kind |-> "MaxDepth", code |-> "", name |-> <<>>]

\* new Error(`Invalid file path (directory traversal detected): ${filename}`)
TraversalError(filename) == [kind |-> "Traversal", code |-> "", name |-> filename]

\* new Error(`File not found: ${filename}`)
NotFoundError(filename) == [kind |-> "NotFound", code |-> "", name |-> filename]

\* the rejection of fs.readFile: an error that carries a code
FsError(code, filename) == [kind |-> "Fs", code |-> code, name |-> filename]

Pending == [status |-> "pending", body |-> <<>>, error |-> NoError, at |-> <<>>]

\* fs.readFile(filePath, 'utf-8'): the content, or the code it rejects with
ReadFile(path) ==
    IF path \in DOMAIN fs THEN fs[path] ELSE [ok |-> FALSE, code |-> "ENOENT", data |-> <<>>]

\* the frame of a call processFileIncludes(content, basePath, depth) that has
\* not run yet
NewFrame(content, basePath, depth) ==
    [content |-> content, basePath |-> basePath, depth |-> depth,
     matches |-> <<>>, idx |-> 0, result |-> <<>>, pc |-> "enter"]

\* mutant: the depth test lets one more level through
DepthExceededOffByOne(depth) == depth > MAX_INCLUDE_DEPTH

\* depth >= MAX_INCLUDE_DEPTH
DepthExceeded(depth) == depth >= MAX_INCLUDE_DEPTH

\* mutant: the included file's own directory becomes the base of the
\* recursive call
NestedInFileDirectory(frame, fileContent) ==
    LET segs == ResolveSegments(frame.basePath, frame.matches[frame.idx].name)
    IN  NewFrame(fileContent, <<"/">> \o Join(SubSeq(segs, 1, Len(segs) - 1), <<"/">>),
                 frame.depth + 1)

\* the arguments of the recursive call: the file's content, the same base,
\* depth + 1
NestedCall(frame, fileContent) ==
    NewFrame(fileContent, frame.basePath, frame.depth + 1)

\* the marker each frame of the chain is working on, outermost first
MarkerPath(st) == [i \in 1..Len(st) |-> st[i].idx]

\* mutant: the catch block wraps every error as "File not found"
CatchAll(frame, err) == NotFoundError(frame.matches[frame.idx].name)

\* the catch block of one frame: a rejection with code ENOENT becomes
\* "File not found" with that frame's filename, anything else is rethrown
Catch(frame, err) ==
    IF err.code = "ENOENT" THEN NotFoundError(frame.matches[frame.idx].name) ELSE err

RECURSIVE Rethrown(_, _)
\* an error that passes the catch blocks of the frames st, innermost first
Rethrown(st, err) ==
    IF st = <<>> THEN err
    ELSE Rethrown(SubSeq(st, 1, Len(st) - 1), Catch(st[Len(st)], err))

\* mutant: a failing marker is skipped and the loop goes on with the next one
SkipAndContinue(st, catching, err) ==
    IF st[Len(st)].pc = "enter"
    THEN [stack |-> <<>>,
          out   |-> [status |-> "threw", body |-> <<>>, error |-> err,
                     at |-> MarkerPath(st)]]
    ELSE [stack |-> [st EXCEPT ![Len(st)].idx = st[Len(st)].idx + 1,
                               ![Len(st)].pc = "loop"],
          out   |-> Pending]

\* A throw at the top of the chain st: no frame handles it, so every pending
\* await rejects and the top-level call rejects with the error, returning no
\* body.  catching is the part of the chain whose try block the throw is in.
Throw(st, catching, err) ==
    [stack |-> <<>>,
     out   |-> [status |-> "threw", body |-> <<>>,
                error |-> Rethrown(catching, err), at |-> MarkerPath(st)]]

\* result.replace(fullMatch, fullMatch.startsWith(' ') ? ' ' + processed : processed)
SpliceInclude(result, fullMatch, processedContent) ==
    ReplaceFirst(result, fullMatch,
                 IF StartsWith(fullMatch, <<SP>>) THEN <<SP>> \o processedContent
                 ELSE processedContent)

\* A return of value from the top frame of st: the top-level call resolves,
\* or the awaiting parent splices the value in and moves to its next marker.
Return(st, value) ==
    IF Len(st) = 1
    THEN [stack |-> <<>>,
          out   |-> [status |-> "returned", body |-> value, error |-> NoError,
                     at |-> <<>>]]
    ELSE LET parent == st[Len(st) - 1]
             m      == parent.matches[parent.idx]
         IN  [stack |-> [SubSeq(st, 1, Len(st) - 1) EXCEPT ![Len(st) - 1] =
                            [parent EXCEPT !.result = SpliceInclude(parent.result, m.full, value),
                                           !.idx = parent.idx + 1,
                                           !.pc = "loop"]],
              out   |-> Pending]

\* mutant: only the markers of the top-level body are checked
PathCheckTopLevelOnly(frame) ==
    LET filename == frame.matches[frame.idx].name
    IN  [called |-> frame.depth = 0,
         safe   |-> frame.depth > 0 \/ isPathSafe(filename, frame.basePath)]

\* what the loop body decides for a marker before any read: lines 120-123
PathCheck(frame) ==
    LET filename == frame.matches[frame.idx].name
    IN  [called |-> TRUE, safe |-> isPathSafe(filename, frame.basePath)]

Top == stack[Len(stack)]
Parents == SubSeq(stack, 1, Len(stack) - 1)

IncFrame ==
    UNCHANGED <<pure, fs, incIn, bash, spawned, running, spliced, bashOut, phase, calls, tree>>

\* the entry of a call: the empty-content return, the depth check, the scan
IncEnter ==
    /\ stack # <<>> /\ Top.pc = "enter"
    /\ LET matches == IncludeMatches(Top.content)
           next == IF Top.content = <<>> THEN Return(stack, Top.content)
                   ELSE IF DepthExceeded(Top.depth) THEN Throw(stack, Parents, DepthError)
                   ELSE IF Len(matches) = 0 THEN Return(stack, Top.content)
                   ELSE [stack |-> [stack EXCEPT ![Len(stack)] =
                                       [Top EXCEPT !.matches = matches, !.idx = 1,
                                                   !.result = Top.content, !.pc = "loop"]],
                         out |-> Pending]
       IN  stack' = next.stack /\ incOut' = next.out
    /\ UNCHANGED <<checks, reads>>
    /\ IncFrame

\* the loop body up to the await of fs.readFile: the path check, then the read
IncMarker ==
    /\ stack # <<>> /\ Top.pc = "loop" /\ Top.idx <= Len(Top.matches)
    /\ LET filename == Top.matches[Top.idx].name
           check    == PathCheck(Top)
           entry    == [name |-> filename, basePath |-> Top.basePath,
                        at |-> MarkerPath(stack), safe |-> check.safe]
           next     == Throw(stack, Parents, TraversalError(filename))
       IN  /\ checks' = IF check.called THEN Append(checks, entry) ELSE checks
           /\ IF ~check.safe
              THEN stack' = next.stack /\ incOut' = next.out /\ reads' = reads
              ELSE /\ stack' = [stack EXCEPT ![Len(stack)].pc = "reading"]
                   /\ reads' = Append(reads, [path |-> Resolve(Top.basePath, filename),
                                              name |-> filename,
                                              at |-> MarkerPath(stack)])
                   /\ incOut' = incOut
    /\ IncFrame

\* fs.readFile settles: the recursive call starts, or the catch block runs
IncReadDone ==
    /\ stack # <<>> /\ Top.pc = "reading"
    /\ LET filename == Top.matches[Top.idx].name
           got      == ReadFile(Resolve(Top.basePath, filename))
           next     == Throw(stack, stack, FsError(got.code, filename))
       IN  IF got.ok
           THEN /\ stack' = Append([stack EXCEPT ![Len(stack)].pc = "awaiting"],
                                   NestedCall(Top, got.data))
                /\ incOut' = incOut
           ELSE stack' = next.stack /\ incOut' = next.out
    /\ UNCHANGED <<checks, reads>>
    /\ IncFrame

\* the loop is over: return result
IncFinish ==
    /\ stack # <<>> /\ Top.pc = "loop" /\ Top.idx > Len(Top.matches)
    /\ LET next == Return(stack, Top.result)
       IN  stack' = next.stack /\ incOut' = next.out
    /\ UNCHANGED <<checks, reads>>
    /\ IncFrame

NextInc == IncEnter \/ IncMarker \/ IncReadDone \/ IncFinish

----------------------------------------------------------------------------
(* The inputs of processFileIncludes                                       *)

\* the most words a template body is made of
MaxWords == 2

RECURSIVE TextsOf(_, _, _)
\* every text of at most n words of W, consecutive words joined by one
\* separator of S (the empty text included)
TextsOf(W, S, n) ==
    IF n = 0 THEN {<<>>}
    ELSE LET shorter == TextsOf(W, S, n - 1)
         IN  shorter \cup W
                     \cup {t \o s \o w : t \in shorter \ {<<>>}, s \in S, w \in W}

BasePath == <<"/", "b">>

FileA == <<"/", "b", "/", "a">>
FileB == <<"/", "b", "/", "b">>
FileC == <<"/", "b", "/", "c">>
FileD == <<"/", "b", "/", "d">>
\* a file outside the base directory
FileS == <<"/", "s">>

IncA == <<"@", "a">>
IncB == <<"@", "b">>
IncC == <<"@", "c">>
IncD == <<"@", "d">>
\* a marker that names a file outside the base directory
IncUp == <<"@", ".", ".", "/", "s">>
\* a marker that names the base directory itself
IncDot == <<"@", ".">>
\* a marker that names a file that does not exist
IncMissing == <<"@", "m">>

Data(text) == [ok |-> TRUE, code |-> "", data |-> text]
Fails(code) == [ok |-> FALSE, code |-> code, data |-> <<>>]

\* what each file of the model may hold: chains a -> b -> c -> d, cycles,
\* empty and plain files, unsafe and missing references, unreadable files
FileChoices ==
    [p \in {FileA, FileB, FileC, FileD, FileS} |->
        CASE p = FileA -> {Data(<<"x">>), Data(IncB), Data(IncA),
                           Data(IncD \o <<SP>> \o IncMissing),
                           Data(IncD \o <<SP>> \o IncA)}
          [] p = FileB -> {Data(<<"y">>), Data(IncC), Data(IncA), Data(IncUp),
                           Fails("ENOENT")}
          [] p = FileC -> {Data(<<>>), Data(<<"z">>), Data(IncD)}
          [] p = FileD -> {Data(<<"w">>), Data(<<"$", "&">>), Fails("ENOENT"),
                           Fails("EACCES")}
          [] OTHER     -> {Data(<<"s">>)}]

\* the file systems of the model: one choice per file, a file that no other
\* file of the chain a -> b -> c refers to keeping its first choice
FileSystems ==
    {[p \in DOMAIN FileChoices |->
         CASE p = FileA -> t[1] [] p = FileB -> t[2] [] p = FileC -> t[3]
           [] p = FileD -> t[4] [] OTHER -> t[5]] :
       t \in {u \in FileChoices[FileA] \X FileChoices[FileB] \X FileChoices[FileC]
                      \X FileChoices[FileD] \X FileChoices[FileS] :
                /\ u[1] # Data(IncB) => u[2] = Data(<<"y">>)
                /\ u[2] # Data(IncC) => u[3] = Data(<<>>)}}

BodyWords == {<<"x">>, IncA, IncD, IncMissing, IncUp, IncDot}
BodySeps == {<<>>, <<SP>>, <<NL>>}
Bodies == TextsOf(BodyWords, BodySeps, MaxWords)

NoPure == [fn |-> "none", in |-> <<>>, out |-> <<>>, done |-> TRUE]
\* no child process has settled yet
NoSettled ==
    [kind |-> "none", killed |-> "undefined", message |-> [kind |-> "", detail |-> <<>>],
     stdout |-> <<>>, stderr |-> <<>>]
NoBash ==
    [content |-> <<>>, matches |-> <<>>, idx |-> 0, result |-> <<>>, pc |-> "idle",
     settled |-> NoSettled]
NoOut == [status |-> "idle", body |-> <<>>, error |-> NoError, at |-> <<>>]
\* no interleaved calls are made
NoCalls == <<>>
\* no FileTree component is mounted
NoTree == <<>>

\* a call processFileIncludes(body, BasePath) with the default depth 0
InitInc ==
    /\ fs \in FileSystems
    /\ \E body \in Bodies : incIn = [content |-> body, basePath |-> BasePath, depth |-> 0]
    /\ stack = <<NewFrame(incIn.content, incIn.basePath, incIn.depth)>>
    /\ checks = <<>> /\ reads = <<>>
    /\ incOut = Pending
    /\ pure = NoPure /\ bash = NoBash /\ spawned = <<>> /\ running = {}
    /\ spliced = <<>>
    /\ bashOut = NoOut /\ phase = "includes" /\ calls = NoCalls /\ tree = NoTree

SpecInc == InitInc /\ [][NextInc]_vars

\* Weak fairness of NextInc: the event loop resumes a pending call.  A step
\* of NextInc is possible exactly while a frame is left (stack # <<>>), so
\* the fairness condition is written with that condition as its enabling
\* predicate: always eventually no frame is left, or always eventually a
\* step of NextInc is taken.
FairSpecInc == SpecInc /\ ([]<>(stack = <<>>) \/ []<><<NextInc>>_vars)

----------------------------------------------------------------------------
(* Properties of processFileIncludes                                       *)

IncDone == incOut.status \in {"returned", "threw"}

\* the order of the markers of a call tree: a marker comes before the
\* markers of the file it includes, and those before the next marker
RECURSIVE PathLess(_, _)
PathLess(p, q) ==
    IF p = <<>> THEN q # <<>>
    ELSE IF q = <<>> THEN FALSE
    ELSE IF Head(p) # Head(q) THEN Head(p) < Head(q)
    ELSE PathLess(Tail(p), Tail(q))

\* the last read has been issued and has not settled yet
ReadPending == stack # <<>> /\ Top.pc = "reading"

\* C3: every file read, at every nesting level, follows a call of isPathSafe
\* for the same marker that returned true; a marker for which isPathSafe
\* returned false makes the call fail with the directory-traversal error and
\* its file is never read.
C3_ReadsFollowPathCheck ==
    /\ \A i \in 1..Len(reads) :
          \E j \in 1..Len(checks) :
             /\ checks[j].at = reads[i].at
             /\ checks[j].name = reads[i].name
             /\ checks[j].basePath = incIn.basePath
             /\ checks[j].safe
    /\ \A j \in 1..Len(checks) :
          ~checks[j].safe =>
             /\ incOut.status = "threw"
             /\ incOut.error = TraversalError(checks[j].name)
             /\ \A i \in 1..Len(reads) : reads[i].at # checks[j].at

\* a nested level has read a file and a nested marker has been refused
C3_Witness ==
    /\ \E i \in 1..Len(reads) : Len(reads[i].at) >= 2
    /\ \E j \in 1..Len(checks) : Len(checks[j].at) >= 2 /\ ~checks[j].safe

RECURSIVE ChainLength(_, _)
\* n when text starts a chain of n nested inclusions (each text holds one
\* marker, at the start or after a space, of a safe readable file, and the
\* last file is non-empty and holds no marker); -1 when it starts none
ChainLength(text, fuel) ==
    LET ms == IncludeMatches(text)
    IN  IF ms = <<>> THEN (IF text # <<>> THEN 0 ELSE -1)
        ELSE IF Len(ms) # 1 \/ fuel = 0 THEN -1
        ELSE LET m   == ms[1]
                 got == ReadFile(Resolve(incIn.basePath, m.name))
             IN  IF ~isPathSafe(m.name, incIn.basePath) \/ ~got.ok
                    \/ Head(m.full) \notin {"@", SP}
                 THEN -1
                 ELSE LET rest == ChainLength(got.data, fuel - 1)
                      IN  IF rest = -1 THEN -1 ELSE rest + 1

RECURSIVE Expanded(_, _)
\* the text of a chain with every marker replaced by the expanded file
Expanded(text, fuel) ==
    LET ms == IncludeMatches(text)
    IN  IF ms = <<>> \/ fuel = 0 THEN text
        ELSE LET m   == ms[1]
                 got == ReadFile(Resolve(incIn.basePath, m.name))
             IN  SubSeq(text, 1, m.index - 1)
                 \o (IF Head(m.full) = SP THEN <<SP>> ELSE <<>>)
                 \o Expanded(got.data, fuel - 1)
                 \o From(text, m.index + Len(m.full))

\* more links than any chain of the model has
ChainFuel == 6

Chain == ChainLength(incIn.content, ChainFuel)

HasDollar(text) == \E i \in 1..Len(text) : text[i] = "$"

RECURSIVE ChainHasDollar(_, _)
\* some included file of the chain holds a dollar sign
ChainHasDollar(text, fuel) ==
    LET ms == IncludeMatches(text)
    IN  IF ms = <<>> \/ fuel = 0 THEN FALSE
        ELSE LET got == ReadFile(Resolve(incIn.basePath, ms[1].name))
             IN  HasDollar(got.data) \/ ChainHasDollar(got.data, fuel - 1)

ReturnedExpanded ==
    /\ incOut.status = "returned"
    /\ incOut.body = Expanded(incIn.content, ChainFuel)

ThrewDepth == incOut.status = "threw" /\ incOut.error = DepthError

CycleRead ==
    \E i, j \in 1..Len(reads) :
       /\ Len(reads[i].at) < Len(reads[j].at)
       /\ SubSeq(reads[j].at, 1, Len(reads[i].at)) = reads[i].at
       /\ reads[i].path = reads[j].path

DepthBounded == \A i \in 1..Len(stack) : stack[i].depth <= MAX_INCLUDE_DEPTH

CycleEndsInDepthError == (IncDone /\ CycleRead) => ThrewDepth

\* a pending call always has a step to take, and a call is over exactly
\* when no frame is left
PendingCanStep ==
    /\ stack # <<>> => Top.pc \in {"enter", "loop", "reading"}
    /\ IncDone <=> stack = <<>>

\* C6: a call processFileIncludes(body, base, 0) terminates with a result or
\* an error, no nested call gets a depth above 3, and a call that follows a
\* cyclic include chain ends in the maximum-include-depth error, not a body.
C6_TerminatesWithinDepth ==
    /\ [](DepthBounded /\ CycleEndsInDepthError /\ PendingCanStep)
    /\ <>IncDone

\* a cyclic chain has been followed down to depth 3 and the call has failed
C6_Witness ==
    /\ CycleRead /\ ThrewDepth
    /\ \E i \in 1..Len(reads) : Len(reads[i].at) = MAX_INCLUDE_DEPTH

\* the read reads[i] has settled with a rejection
ReadFailed(i) == ~ReadFile(reads[i].path).ok /\ ~(ReadPending /\ i = Len(reads))

\* C8: the markers are handled one at a time, left to right; when handling
\* marker k fails (depth exceeded, unsafe path, missing file, other read
\* error, failure in a nested include) the call rejects with an error and no
\* body, and no file is read for any marker after k.
C8_FailureAbortsCall ==
    /\ \A i, j \in 1..Len(reads) : i < j => PathLess(reads[i].at, reads[j].at)
    /\ \A i \in 1..Len(reads) :
          ReadFailed(i) => incOut.status = "threw" /\ i = Len(reads)
    /\ \A j \in 1..Len(checks) :
          ~checks[j].safe => incOut.status = "threw" /\ j = Len(checks)
    /\ incOut.status = "threw" =>
          /\ incOut.error # NoError
          /\ incOut.body = <<>>
          /\ stack = <<>>
          /\ \A i \in 1..Len(reads) : PathLess(reads[i].at, incOut.at)
                                      \/ reads[i].at = incOut.at

\* the second marker of an included file failed after the first had been
\* substituted, and the second marker of the body was never handled
C8_Witness ==
    /\ incOut.status = "threw"
    /\ incOut.at = <<1, 2>>
    /\ \E i \in 1..Len(reads) : reads[i].at = <<1, 1>>
    /\ Len(IncludeMatches(incIn.content)) = 2

----------------------------------------------------------------------------
(* parse of shell-quote, which validateCommand calls as parseShellCommand   *)

Letters ==
    {"a", "b", "c", "d", "e", "f", "g", "h", "i", "j", "k", "l", "m", "n", "o", "p",
     "q", "r", "s", "t", "u", "v", "w", "x", "y", "z"}

\* \w of a regular expression, over the characters of the model
IsWordChar(c) == c \in Letters \cup {"_"}

\* META: the characters a bare word holds only behind a backslash
IsMeta(c) == c \in {"|", "&", ";", "(", ")", "<", ">", SP, TAB}

\* [&;()|<>], the one-character control operators
IsControlChar(c) == c \in {"&", ";", "(", ")", "|", "<", ">"}

\* the longer control operators, in the order the pattern tries them
ControlOps ==
    << <<"|", "|">>, <<"&", "&">>, <<";", ";">>, <<"|", "&">>, <<"<", "(">>,
       <<"<", "<", "<">>, <<">", ">">>, <<">", "&">>, <<"<", "&">> >>

\* the length of the control operator that starts at position i, 0 for none
ControlLenAt(s, i) ==
    LET hits == {k \in 1..Len(ControlOps) : StartsWith(From(s, i), ControlOps[k])}
    IN  IF hits # {} THEN Len(ControlOps[CHOOSE k \in hits : \A j \in hits : k <= j])
        ELSE IF i <= Len(s) /\ IsControlChar(s[i]) THEN 1
        ELSE 0

RECURSIVE BarewordLenAt(_, _)
\* BAREWORD at position i: a backslash with the quote or META character it
\* escapes, or any character that is no whitespace, quote or META character
BarewordLenAt(s, i) ==
    IF i > Len(s) THEN 0
    ELSE IF s[i] = BS /\ i + 1 <= Len(s) /\ (s[i + 1] \in {SQ, DQ} \/ IsMeta(s[i + 1]))
    THEN 2 + BarewordLenAt(s, i + 2)
    ELSE IF ~IsSpace(s[i]) /\ s[i] \notin {SQ, DQ} /\ ~IsMeta(s[i])
    THEN 1 + BarewordLenAt(s, i + 1)
    ELSE 0

RECURSIVE QuotedEnd(_, _, _)
\* where the quoted string whose content starts at p closes, 0 when it does
\* not: the content is matched lazily, an escaped quote before any other
\* character
QuotedEnd(s, p, q) ==
    IF p > Len(s) THEN 0
    ELSE IF s[p] = q THEN p
    ELSE IF s[p] = BS /\ p + 1 <= Len(s) /\ s[p + 1] = q
    THEN LET r == QuotedEnd(s, p + 2, q)
         IN  IF r # 0 THEN r ELSE QuotedEnd(s, p + 1, q)
    ELSE QuotedEnd(s, p + 1, q)

RECURSIVE GroupLenAt(_, _)
\* (BAREWORD | "..." | '...')+ at position i: the length of the chunk
GroupLenAt(s, i) ==
    LET b == BarewordLenAt(s, i)
        e == IF i <= Len(s) /\ s[i] \in {DQ, SQ} THEN QuotedEnd(s, i + 1, s[i]) ELSE 0
    IN  IF b > 0 THEN b + GroupLenAt(s, i + b)
        ELSE IF e # 0 THEN (e - i + 1) + GroupLenAt(s, e + 1)
        ELSE 0

RECURSIVE Chunks(_, _)
\* matchAll(string, chunker): control operators and chunks, left to right;
\* a character that starts neither is passed over
Chunks(s, i) ==
    IF i > Len(s) THEN <<>>
    ELSE LET c == ControlLenAt(s, i)
             g == GroupLenAt(s, i)
         IN  IF c > 0 THEN <<SubSeq(s, i, i + c - 1)>> \o Chunks(s, i + c)
             ELSE IF g > 0 THEN <<SubSeq(s, i, i + g - 1)>> \o Chunks(s, i + g)
             ELSE Chunks(s, i + 1)

\* the tokens of the parse: a string, or an object with or without an op
StringToken(text) == [isString |-> TRUE, value |-> text, op |-> <<>>]
OpToken(text) == [isString |-> FALSE, value |-> <<>>, op |-> text]
GlobToken(pattern) == [isString |-> FALSE, value |-> pattern, op |-> <<"g", "l", "o", "b">>]
\* { comment: ... }: an object that has no op
CommentToken == [isString |-> FALSE, value |-> <<>>, op |-> <<>>]

\* parseEnvVar with the dollar at position i and an empty environment: the
\* text the variable stands for and the position of the last character it
\* took.  A name in braces or a special parameter is unset, so it stands for
\* nothing; an empty name leaves the dollar; ${} and an open ${ throw.
parseEnvVar(s, i) ==
    LET j     == i + 1
        char  == IF j <= Len(s) THEN s[j] ELSE ""
        close == IndexOf(From(s, j + 1), <<"}">>)
        n     == RunLen(s, j, IsWordChar)
    IN  IF char = "{"
        THEN IF close <= 1 THEN [threw |-> TRUE, text |-> <<>>, i |-> i]
             ELSE [threw |-> FALSE, text |-> <<>>, i |-> j + close]
        ELSE IF char \in {"*", "@", "#", "?", "$", "!", "_", "-"}
        THEN [threw |-> FALSE, text |-> <<>>, i |-> j + 1]
        ELSE IF j + n > Len(s)
        THEN [threw |-> FALSE, text |-> IF n = 0 THEN <<"$">> ELSE <<>>, i |-> Len(s) + 1]
        ELSE [threw |-> FALSE, text |-> IF n = 0 THEN <<"$">> ELSE <<>>, i |-> j + n - 1]

RECURSIVE Scan(_, _, _, _, _, _)
\* The scan of one chunk s from position i on: quotes are taken off, a
\* backslash escapes the next character, an unquoted * or ? makes the chunk
\* a glob, an unquoted control character makes it an operator, an unquoted
\* # starts a comment.  quote is "" outside quotes.
Scan(s, i, quote, esc, out, isGlob) ==
    IF i > Len(s)
    THEN [threw |-> FALSE, commented |-> FALSE,
          tokens |-> <<IF isGlob THEN GlobToken(out) ELSE StringToken(out)>>]
    ELSE LET c    == s[i]
             glob == isGlob \/ (quote = "" /\ c \in {"*", "?"})
             d    == IF i + 1 <= Len(s) THEN <<s[i + 1]>> ELSE <<>>
             v    == parseEnvVar(s, i)
             var  == IF v.threw
                     THEN [threw |-> TRUE, commented |-> FALSE, tokens |-> <<>>]
                     ELSE Scan(s, v.i + 1, quote, FALSE, out \o v.text, glob)
         IN  IF esc THEN Scan(s, i + 1, quote, FALSE, Append(out, c), glob)
             ELSE IF quote # ""
             THEN IF c = quote THEN Scan(s, i + 1, "", FALSE, out, glob)
                  ELSE IF quote = SQ THEN Scan(s, i + 1, quote, FALSE, Append(out, c), glob)
                  ELSE IF c = BS
                  THEN Scan(s, i + 2, quote, FALSE,
                            out \o (IF d \in {<<DQ>>, <<BS>>, <<"$">>} THEN d ELSE <<BS>> \o d),
                            glob)
                  ELSE IF c = "$" THEN var
                  ELSE Scan(s, i + 1, quote, FALSE, Append(out, c), glob)
             ELSE IF c \in {DQ, SQ} THEN Scan(s, i + 1, c, FALSE, out, glob)
             ELSE IF IsControlChar(c)
             THEN [threw |-> FALSE, commented |-> FALSE, tokens |-> <<OpToken(s)>>]
             ELSE IF c = "#"
             THEN [threw |-> FALSE, commented |-> TRUE,
                   tokens |-> (IF out # <<>> THEN <<StringToken(out)>> ELSE <<>>)
                              \o <<CommentToken>>]
             ELSE IF c = BS THEN Scan(s, i + 1, quote, TRUE, out, glob)
             ELSE IF c = "$" THEN var
             ELSE Scan(s, i + 1, quote, FALSE, Append(out, c), glob)

RECURSIVE ScanChunks(_)
\* the chunks mapped to tokens: a control operator is an op, every chunk
\* after a comment is dropped, and an exception ends the parse
ScanChunks(chunks) ==
    IF chunks = <<>> THEN [threw |-> FALSE, tokens |-> <<>>]
    ELSE LET s    == Head(chunks)
             t    == IF ControlLenAt(s, 1) = Len(s)
                     THEN [threw |-> FALSE, commented |-> FALSE, tokens |-> <<OpToken(s)>>]
                     ELSE Scan(s, 1, "", FALSE, <<>>, FALSE)
             rest == ScanChunks(Tail(chunks))
         IN  IF t.threw THEN [threw |-> TRUE, tokens |-> <<>>]
             ELSE IF t.commented THEN [threw |-> FALSE, tokens |-> t.tokens]
             ELSE IF rest.threw THEN rest
             ELSE [threw |-> FALSE, tokens |-> t.tokens \o rest.tokens]

\* parseShellCommand(trimmedCommand): parse of shell-quote with no environment
parseShellCommand(trimmedCommand) == ScanChunks(Chunks(trimmedCommand, 1))

----------------------------------------------------------------------------
(* validateCommand                                                         *)

BASH_COMMAND_ALLOWLIST ==
    << <<"e", "c", "h", "o">>, <<"l", "s">>, <<"p", "w", "d">>, <<"d", "a", "t", "e">>,
       <<"w", "h", "o", "a", "m", "i">>, <<"g", "i", "t">>, <<"n", "p", "m">>,
       <<"n", "o", "d", "e">>, <<"c", "a", "t">>, <<"g", "r", "e", "p">>,
       <<"f", "i", "n", "d">>,
       <<"t", "a", "s", "k", "-", "m", "a", "s", "t", "e", "r">> >>

\* Array.prototype.includes
Includes(list, x) == \E k \in 1..Len(list) : list[k] = x

RECURSIVE StripTrailingSlashes(_)
StripTrailingSlashes(p) ==
    IF p # <<>> /\ p[Len(p)] = "/" THEN StripTrailingSlashes(SubSeq(p, 1, Len(p) - 1))
    ELSE p

\* path.basename: the last segment, trailing slashes aside
Basename(p) ==
    LET segs == SplitOn(StripTrailingSlashes(p), "/")
    IN  segs[Len(segs)]

\* the characters of /[;&|BT$()<>{}[\]\\]/
DangerousChars == {";", "&", "|", BT, "$", "(", ")", "<", ">", "{", "}", "[", "]", BS}

\* dangerousPattern.test(arg)
dangerousPattern(arg) == \E k \in 1..Len(arg) : arg[k] \in DangerousChars

\* parsed.some(token => typeof token === 'object' && token.op)
hasOperators(parsed) == \E k \in 1..Len(parsed) : ~parsed[k].isString /\ parsed[k].op # <<>>

\* the values of parsed.filter(token => typeof token === 'string')
StringTokens(parsed) ==
    LET strings == SelectSeq(parsed, LAMBDA t : t.isString)
    IN  [k \in 1..Len(strings) |-> strings[k].value]

\* the error texts of validateCommand, by kind and the name they quote
EmptyCommand == [kind |-> "Empty command", detail |-> <<>>]
OperatorsNotAllowed == [kind |-> "Shell operators are not allowed", detail |-> <<>>]
NoValidCommand == [kind |-> "No valid command found", detail |-> <<>>]
NotInAllowlist(commandName) == [kind |-> "is not in the allowlist", detail |-> commandName]
DangerousArgument(arg) == [kind |-> "Argument contains dangerous characters", detail |-> arg]
NoReason == [kind |-> "", detail |-> <<>>]

Rejected(command, args, error) ==
    [threw |-> FALSE, allowed |-> FALSE, command |-> command, args |-> args, error |-> error]

\* mutant: the allowlist is matched by prefix
PrefixOfAllowed(commandName) ==
    \E k \in 1..Len(BASH_COMMAND_ALLOWLIST) : StartsWith(commandName, BASH_COMMAND_ALLOWLIST[k])

\* BASH_COMMAND_ALLOWLIST.includes(commandName)
isAllowed(commandName) == Includes(BASH_COMMAND_ALLOWLIST, commandName)

\* the result of a line whose parse throws: validateCommand returns nothing
ParseThrew ==
    [threw |-> TRUE, allowed |-> FALSE, command |-> <<>>, args |-> <<>>, error |-> NoReason]

\* the first argument that holds a dangerous character, 0 for none
FirstDangerous(args) ==
    IF \A k \in 1..Len(args) : ~dangerousPattern(args[k]) THEN 0
    ELSE CHOOSE k \in 1..Len(args) :
            dangerousPattern(args[k]) /\ \A j \in 1..(k - 1) : ~dangerousPattern(args[j])

\* lines 183-210: the allowlist test of the name, then the test of the args
ValidateNamed(commandName, args) ==
    IF ~isAllowed(commandName)
    THEN Rejected(commandName, args, NotInAllowlist(commandName))
    ELSE IF FirstDangerous(args) # 0
    THEN Rejected(commandName, args, DangerousArgument(args[FirstDangerous(args)]))
    ELSE [threw |-> FALSE, allowed |-> TRUE, command |-> commandName, args |-> args,
          error |-> NoReason]

\* mutant: the allowlist is asked about the command as written, path and all
ValidateAsWritten(tokens) ==
    IF Len(tokens) = 0 THEN Rejected(<<>>, <<>>, NoValidCommand)
    ELSE ValidateNamed(Head(tokens), Tail(tokens))

\* lines 176-180: const [command, ...args] = tokens
ValidateTokens(tokens) ==
    IF Len(tokens) = 0 THEN Rejected(<<>>, <<>>, NoValidCommand)
    ELSE ValidateNamed(Basename(Head(tokens)), Tail(tokens))

\* mutant: the allowlist is asked before the tokens are tested for operators
AllowlistBeforeOperators(parsed) ==
    IF parsed.threw THEN ParseThrew
    ELSE IF /\ StringTokens(parsed.tokens) # <<>>
            /\ ~isAllowed(Basename(Head(StringTokens(parsed.tokens))))
    THEN ValidateTokens(StringTokens(parsed.tokens))
    ELSE IF hasOperators(parsed.tokens) THEN Rejected(<<>>, <<>>, OperatorsNotAllowed)
    ELSE ValidateTokens(StringTokens(parsed.tokens))

\* lines 160-174: the operator test, then the string tokens
ValidateParsed(parsed) ==
    IF parsed.threw THEN ParseThrew
    ELSE IF hasOperators(parsed.tokens) THEN Rejected(<<>>, <<>>, OperatorsNotAllowed)
    ELSE ValidateTokens(StringTokens(parsed.tokens))

\* lines 152-157: the empty test, then the parse
ValidateTrimmed(trimmedCommand) ==
    IF trimmedCommand = <<>> THEN Rejected(<<>>, <<>>, EmptyCommand)
    ELSE ValidateParsed(parseShellCommand(trimmedCommand))

\* validateCommand(commandString); threw is set when the parse throws
validateCommand(commandString) == ValidateTrimmed(Trim(commandString))

----------------------------------------------------------------------------
(* One call of validateCommand, and one call of isPathSafe                  *)

NoFiles == <<>>
NoCall == [content |-> <<>>, basePath |-> <<>>, depth |-> 0]

\* nothing of the two passes is running
PassesIdle ==
    /\ fs = NoFiles /\ incIn = NoCall /\ stack = <<>> /\ checks = <<>> /\ reads = <<>>
    /\ incOut = NoOut /\ bash = NoBash /\ spawned = <<>> /\ running = {}
    /\ spliced = <<>> /\ bashOut = NoOut /\ phase = "none" /\ calls = NoCalls /\ tree = NoTree

PureFrame ==
    UNCHANGED <<fs, incIn, stack, checks, reads, incOut, bash, spawned, running, spliced,
                bashOut, phase, calls, tree>>

\* the most pieces a command line is made of
MaxPieces == 4

\* what command lines are made of: an allowlisted name, another letter,
\* blanks, a slash, an operator, quoting, escaping, a variable, a comment
\* and a glob character
LinePieces ==
    {<<"l", "s">>, <<"x">>, <<SP>>, <<"/">>, <<";">>, <<SQ>>, <<BS>>, <<"$">>, <<"#">>,
     <<"*">>}

CommandLines == TextsOf(LinePieces, {<<>>}, MaxPieces)

InitVal ==
    /\ \E line \in CommandLines :
          pure = [fn |-> "validateCommand", in |-> line, out |-> <<>>, done |-> FALSE]
    /\ PassesIdle

\* the call validateCommand(pure.in), which returns since no line of
\* CommandLines makes the parse throw
CallValidateCommand ==
    /\ pure.fn = "validateCommand" /\ ~pure.done
    /\ pure' = [pure EXCEPT !.out = validateCommand(pure.in), !.done = TRUE]
    /\ PureFrame

SpecVal == InitVal /\ [][CallValidateCommand]_vars

\* the most characters a candidate path is made of
MaxPathLen == 4

PathPieces == {<<".">>, <<"/">>, <<"x">>}

CandidatePaths == TextsOf(PathPieces, {<<>>}, MaxPathLen)

\* base directories: absolute, nested, with a trailing slash, the root, and
\* one relative to the working directory
BasePaths == {<<"/", "b">>, <<"/", "b", "/", "c">>, <<"/", "b", "/">>, <<"/">>, <<"b">>}

InitPath ==
    /\ \E p \in CandidatePaths, b \in BasePaths :
          pure = [fn |-> "isPathSafe", in |-> [filePath |-> p, basePath |-> b],
                  out |-> FALSE, done |-> FALSE]
    /\ PassesIdle

\* the call isPathSafe(filePath, basePath)
CallIsPathSafe ==
    /\ pure.fn = "isPathSafe" /\ ~pure.done
    /\ pure' = [pure EXCEPT !.out = isPathSafe(pure.in.filePath, pure.in.basePath),
                            !.done = TRUE]
    /\ PureFrame

SpecPath == InitPath /\ [][CallIsPathSafe]_vars

----------------------------------------------------------------------------
(* Properties of validateCommand and isPathSafe                            *)

Validated == pure.fn = "validateCommand" /\ pure.done

\* C2: whenever validateCommand returns allowed = true, (i) the parse of the
\* trimmed line holds no operator token, (ii) the returned command is a
\* member of the allowlist, and (iii) no returned argument holds one of the
\* characters ; & | BT $ ( ) < > { } [ ] \
C2_AllowedIsSafe ==
    (Validated /\ pure.out.allowed) =>
        /\ ~hasOperators(parseShellCommand(Trim(pure.in)).tokens)
        /\ \E k \in 1..Len(BASH_COMMAND_ALLOWLIST) :
              BASH_COMMAND_ALLOWLIST[k] = pure.out.command
        /\ \A k \in 1..Len(pure.out.args) :
              \A j \in 1..Len(pure.out.args[k]) : pure.out.args[k][j] \notin DangerousChars

\* a line with a path before the name and a quoted argument was allowed
C2_Witness ==
    /\ Validated /\ pure.out.allowed
    /\ Contains(pure.in, <<"/">>) /\ Contains(pure.in, <<SQ>>)
    /\ Len(pure.out.args) >= 1

\* directories put before the first token of a line
DirPrefixes == {<<"/">>, <<"x", "/">>, <<"/", "x", "/">>}

\* two parses that differ only in the directory of their first token: the
\* first tokens are strings with the same base name and the other tokens
\* are the same
SameButDirectory(parsed, other) ==
    /\ ~parsed.threw /\ ~other.threw
    /\ Len(parsed.tokens) >= 1 /\ Len(parsed.tokens) = Len(other.tokens)
    /\ parsed.tokens[1].isString /\ other.tokens[1].isString
    /\ Basename(parsed.tokens[1].value) = Basename(other.tokens[1].value)
    /\ Tail(parsed.tokens) = Tail(other.tokens)

\* two results of validateCommand with the same fields
JudgedAlike(result, other) ==
    /\ result.allowed = other.allowed /\ result.command = other.command
    /\ result.args = other.args /\ result.error = other.error

\* the line with a directory put before its first token
WithDirectory(prefix, line) == prefix \o Trim(line)

\* the line and the line with the directory differ only in that directory
DiffersInDirectory(prefix, line) ==
    SameButDirectory(parseShellCommand(Trim(line)),
                     parseShellCommand(Trim(WithDirectory(prefix, line))))

\* C13: two command lines that differ only in the directory before the
\* base name of their first token get the same allowed flag, the same
\* command, the same args and the same error from validateCommand, and the
\* command returned holds no directory separator.  The line with the
\* directory is trimmed and not empty, so that validateCommand of it is
\* ValidateParsed of its parse.
C13_DirectoryIgnored ==
    Validated =>
        /\ ~Contains(pure.out.command, <<"/">>)
        /\ \A parsed \in {parseShellCommand(Trim(pure.in))} :
              \A prefix \in DirPrefixes :
                  \A other \in {parseShellCommand(WithDirectory(prefix, pure.in))} :
                      SameButDirectory(parsed, other) =>
                          JudgedAlike(pure.out, ValidateParsed(other))

\* ls with an argument, written with a directory, was allowed as ls, and the
\* same line with a longer directory differs from it only in the directory
C13_Witness ==
    /\ Validated /\ pure.in = <<"/", "l", "s", SP, "x">>
    /\ pure.out.allowed /\ pure.out.command = <<"l", "s">>
    /\ DiffersInDirectory(<<"/", "x", "/">>, pure.in)

\* the error validateCommand returned is that of the first test, in the
\* order empty, operator, allowlist, argument, which the line does not pass;
\* tokens are the strings of the parse of the trimmed line
FirstFailedCheck(trimmed, parsed, tokens, result) ==
    /\ trimmed = <<>> => result.error = EmptyCommand
    /\ (trimmed # <<>> /\ hasOperators(parsed)) => result.error = OperatorsNotAllowed
    /\ (trimmed # <<>> /\ ~hasOperators(parsed) /\ tokens # <<>>) =>
          \A name \in {Basename(Head(tokens))}, dangerous \in {FirstDangerous(Tail(tokens))} :
              /\ ~isAllowed(name) => result.error = NotInAllowlist(name)
              /\ (isAllowed(name) /\ dangerous # 0) =>
                     result.error = DangerousArgument(Tail(tokens)[dangerous])
              /\ (isAllowed(name) /\ dangerous = 0) =>
                     result.allowed /\ result.error = NoReason
    /\ result.allowed <=> result.error = NoReason

\* FirstFailedCheck for the parse of a trimmed line
FirstFailedOfParse(trimmed, parsed, result) ==
    \A tokens \in {StringTokens(parsed)} : FirstFailedCheck(trimmed, parsed, tokens, result)

\* C14: validateCommand tests the line for being empty, for operators, for
\* the allowlist and for dangerous argument characters in that order, and
\* returns the error of the first test that fails: a line with an operator
\* is rejected for the operator even if its command is not allowlisted, and
\* a line whose command is not allowlisted is rejected for that even if an
\* argument holds a dangerous character
C14_FirstFailureReported ==
    Validated =>
        \A trimmed \in {Trim(pure.in)} :
            \A parsed \in {IF trimmed = <<>> THEN <<>>
                            ELSE parseShellCommand(trimmed).tokens} :
                FirstFailedOfParse(trimmed, parsed, pure.out)

\* a command that is not allowlisted, with a dangerous argument, was
\* rejected for the allowlist
C14_Witness ==
    /\ Validated /\ pure.in = <<"x", SP, BS, ";">>
    /\ pure.out.error = NotInAllowlist(<<"x">>)
    /\ pure.out.args = << <<";">> >>

PathChecked == pure.fn = "isPathSafe" /\ pure.done

\* the candidate resolved against the base lies strictly below the base
StrictDescendant(filePath, basePath) ==
    LET resolvedPath == ResolveSegments(basePath, filePath)
        resolvedBase == ResolveSegments(basePath, <<>>)
    IN  /\ Len(resolvedPath) > Len(resolvedBase)
        /\ SubSeq(resolvedPath, 1, Len(resolvedBase)) = resolvedBase

\* the relative path from the base to the resolved candidate is empty, has
\* .. as its first segment, or is absolute
RelativeEscapes(filePath, basePath) ==
    LET relative == Relative(ResolveSegments(basePath, <<>>),
                             ResolveSegments(basePath, filePath))
    IN  \/ relative = <<>>
        \/ Head(SplitOn(relative, "/")) = <<".", ".">>
        \/ IsAbsolute(relative)

\* C4 as stated: isPathSafe(p, b) is true exactly when p resolved against b
\* is a strict descendant of b, and false exactly when the relative path is
\* empty, has .. as its first segment, or is absolute
C4_AsClaimed ==
    PathChecked =>
        /\ pure.out = StrictDescendant(pure.in.filePath, pure.in.basePath)
        /\ (~pure.out) = RelativeEscapes(pure.in.filePath, pure.in.basePath)

\* the file ..x of the base directory was judged unsafe
C4_Witness ==
    /\ PathChecked /\ ~pure.out
    /\ pure.in.filePath = <<".", ".", "x">> /\ pure.in.basePath = <<"/", "b">>
    /\ StrictDescendant(pure.in.filePath, pure.in.basePath)

----------------------------------------------------------------------------
(* sanitizeOutput and processBashCommands                                  *)

\* the characters NUL (code 0), US (code 31, the last control character
\* below the space), PAD (code 128, the first character above DEL) and a
\* character outside the basic plane, which the spread of the string gives
\* as one element whose charCodeAt(0) is its high surrogate
NUL == "NUL"
US == "US"
PAD == "PAD"
ASTRAL == "ASTRAL"

\* ch.charCodeAt(0); every character of the model other than the ones named
\* here is a printable one, and 64 stands for its code
charCodeAt(ch) ==
    CASE ch = TAB -> 9 [] ch = NL -> 10 [] ch = CR -> 13 [] ch = ESC -> 27
      [] ch = DEL -> 127 [] ch = NUL -> 0 [] ch = US -> 31 [] ch = SP -> 32
      [] ch = PAD -> 128 [] ch = ASTRAL -> 55357 [] OTHER -> 64

\* mutant: the three control characters that are let through are dropped too
KeepsPrintable(ch) ==
    LET code == charCodeAt(ch)
    IN  code >= 32 /\ code # 127

\* the filter of sanitizeOutput
KeepsChar(ch) ==
    LET code == charCodeAt(ch)
    IN  code = 9 \/ code = 10 \/ code = 13 \/ (code >= 32 /\ code # 127)

sanitizeOutput(output) == IF output = <<>> THEN <<>> ELSE SelectSeq(output, KeepsChar)

\* mutant: what the child wrote to stderr is put after what it wrote to stdout
BothStreams(stdout, stderr) == stdout \o stderr

\* stdout || stderr || ''
FirstTruthy(stdout, stderr) ==
    IF stdout # <<>> THEN stdout ELSE IF stderr # <<>> THEN stderr ELSE <<>>

\* new Error(`Command not allowed: ${commandString} - ${validation.error}`)
CommandNotAllowed(commandString, reason) ==
    [kind |-> "Command not allowed", cmd |-> commandString, reason |-> reason]

\* new Error(`Command timeout: ${commandString}`)
CommandTimeout(commandString) ==
    [kind |-> "Command timeout", cmd |-> commandString, reason |-> NoReason]

\* new Error(`Command failed: ${commandString} - ${error.message}`)
CommandFailed(commandString, message) ==
    [kind |-> "Command failed", cmd |-> commandString, reason |-> message]

\* the exception of the parse, which validateCommand lets through
BadSubstitution(commandString) ==
    [kind |-> "Bad substitution", cmd |-> commandString, reason |-> NoReason]

\* the call processBashCommands(content) before it has run
NewBash(content) ==
    [content |-> content, matches |-> <<>>, idx |-> 0, result |-> <<>>, pc |-> "enter",
     settled |-> NoSettled]

\* match[1].trim() of the marker the loop is at
commandString(b) == Trim(b.matches[b.idx].line)

\* mutant: the validation of the first marker is kept for the later ones
CachedValidation(b) == validateCommand(Trim(b.matches[1].line))

\* const validation = validateCommand(commandString)
Validation(b) == validateCommand(commandString(b))

BashReturn(b, value) ==
    [bash |-> [b EXCEPT !.pc = "done"],
     out  |-> [status |-> "returned", body |-> value, error |-> NoError, at |-> b.idx]]

\* mutant: a failing marker is passed over and the loop goes on
BashSkip(b, err) ==
    [bash |-> [b EXCEPT !.idx = b.idx + 1, !.pc = "loop"], out |-> bashOut]

\* a throw out of the loop: the call rejects and returns no body
BashThrow(b, err) ==
    [bash |-> [b EXCEPT !.pc = "done"],
     out  |-> [status |-> "threw", body |-> <<>>, error |-> err, at |-> b.idx]]

\* mutant: the loop goes on without awaiting the child process
NoAwait(b) == [b EXCEPT !.idx = b.idx + 1, !.pc = "loop"]

\* await execFileAsync(...): the call is suspended until the child completes
Await(b) == [b EXCEPT !.pc = "awaiting"]

\* mutant: the loop scans the body again after each splice
RescanResult(b, result) ==
    [b EXCEPT !.result = result, !.matches = CommandMatches(result),
              !.idx = b.idx + 1, !.pc = "loop"]

\* for (const match of matches): the loop goes on to the next element of the
\* array that was filled before the loop, whatever result has become
NextMatch(b, result) == [b EXCEPT !.result = result, !.idx = b.idx + 1, !.pc = "loop"]

\* result.replace(fullMatch, fullMatch.startsWith('\n') ? '\n' + output : output)
SpliceCommand(result, fullMatch, output) ==
    ReplaceFirst(result, fullMatch,
                 IF StartsWith(fullMatch, <<NL>>) THEN <<NL>> \o output ELSE output)

\* what a child process may write
Stdouts == {<<>>, <<"o", ESC>>, <<"$", "&">>, <<"@", "a">>, <<"!", "l", "s">>}
Stderrs == {<<>>, <<"e">>}

\* the message of the error execFileAsync rejects with
ExecMessage(text) == [kind |-> text, detail |-> <<>>]

\* a rejection of execFileAsync: what ended the child, the killed property
\* of the error and its message
Rejection(kind, killed, text) ==
    [kind |-> kind, killed |-> killed, message |-> ExecMessage(text),
     stdout |-> <<>>, stderr |-> <<>>]

\* the rejections of execFileAsync. The child is killed when the timeout
\* expires and the error then has killed = true; a child that exits with an
\* error code has killed = false; an error made before the exit (the child
\* cannot be started, the output exceeds maxBuffer and the child is killed
\* for it) has no killed property
Rejections ==
    {Rejection("timeout", "true", "Command failed"),
     Rejection("nonzero", "false", "Command failed"),
     Rejection("spawn", "undefined", "spawn ENOENT"),
     Rejection("maxBuffer", "undefined", "stdout maxBuffer length exceeded")}

\* how the promise of execFileAsync settles: the child exits with success
\* and the promise resolves with what it wrote (to stdout only, to stderr
\* only, or to both), or the promise rejects
Outcomes ==
    {[kind |-> "exit", killed |-> "undefined", message |-> ExecMessage(""),
      stdout |-> w[1], stderr |-> w[2]] :
        w \in (Stdouts \X {<<>>}) \cup ({<<>>, <<"o", ESC>>} \X Stderrs)}
        \cup Rejections

\* the truth value of error.killed
Truthy(value) == value = "true"

\* mutant: every error of a child that was killed is taken for a timeout
CaughtKill(commandLine, error) ==
    IF error.kind \in {"timeout", "maxBuffer"} THEN CommandTimeout(commandLine)
    ELSE CommandFailed(commandLine, error.message)

\* the catch block: what is thrown for the error execFileAsync rejected with
Caught(commandLine, error) ==
    IF Truthy(error.killed) THEN CommandTimeout(commandLine)
    ELSE CommandFailed(commandLine, error.message)

BashFrame == UNCHANGED <<pure, fs, incIn, stack, checks, reads, incOut, phase, calls, tree>>

\* the entry of the call: the empty-content return and the scan
BashEnter ==
    /\ bash.pc = "enter"
    /\ LET matches == CommandMatches(bash.content)
           next == IF bash.content = <<>> THEN BashReturn(bash, bash.content)
                   ELSE IF Len(matches) = 0 THEN BashReturn(bash, bash.content)
                   ELSE [bash |-> [bash EXCEPT !.matches = matches, !.idx = 1,
                                               !.result = bash.content, !.pc = "loop"],
                         out  |-> bashOut]
       IN  bash' = next.bash /\ bashOut' = next.out
    /\ UNCHANGED <<spawned, running, spliced>>
    /\ BashFrame

\* the loop body up to the await: the line is validated, and the call fails
\* or the child process is spawned with the command and args of the validation
BashValidate ==
    /\ bash.pc = "loop" /\ bash.idx <= Len(bash.matches)
    /\ \E validation \in {Validation(bash)} :
          IF validation.threw \/ ~validation.allowed
          THEN /\ \E next \in {BashThrow(bash,
                                 IF validation.threw
                                 THEN BadSubstitution(commandString(bash))
                                 ELSE CommandNotAllowed(commandString(bash),
                                                        validation.error))} :
                     bash' = next.bash /\ bashOut' = next.out
               /\ UNCHANGED <<spawned, running>>
          ELSE /\ spawned' = Append(spawned, [marker |-> bash.idx,
                                              command |-> validation.command,
                                              args |-> validation.args])
               /\ running' = running \cup {bash.idx}
               /\ bash' = Await(bash)
               /\ bashOut' = bashOut
    /\ UNCHANGED spliced
    /\ BashFrame

\* the child process completes: its output is sanitized and spliced in, or
\* the catch block turns the rejection into a timeout or a failure error
BashComplete ==
    /\ bash.pc = "awaiting"
    /\ \E outcome \in Outcomes :
          LET output == sanitizeOutput(FirstTruthy(outcome.stdout, outcome.stderr))
              settled == [bash EXCEPT !.settled = outcome]
              next   == BashThrow(settled, Caught(commandString(bash), outcome))
          IN  /\ running' = running \ {bash.idx}
              /\ IF outcome.kind = "exit"
                 THEN /\ bash' = NextMatch(settled,
                                          SpliceCommand(bash.result,
                                                        bash.matches[bash.idx].full,
                                                        output))
                      /\ spliced' = Append(spliced, [marker |-> bash.idx, output |-> output,
                                                     stdout |-> outcome.stdout,
                                                     stderr |-> outcome.stderr])
                      /\ bashOut' = bashOut
                 ELSE /\ bash' = next.bash /\ bashOut' = next.out
                      /\ spliced' = spliced
    /\ UNCHANGED spawned
    /\ BashFrame

\* the loop is over: return result
BashFinish ==
    /\ bash.pc = "loop" /\ bash.idx > Len(bash.matches)
    /\ LET next == BashReturn(bash, bash.result)
       IN  bash' = next.bash /\ bashOut' = next.out
    /\ UNCHANGED <<spawned, running, spliced>>
    /\ BashFrame

NextBash == BashEnter \/ BashValidate \/ BashComplete \/ BashFinish

----------------------------------------------------------------------------
(* One call of processBashCommands                                         *)

\* the most lines a body of commands is made of
MaxLines == 3

\* the lines of a body: plain text, an allowed command, one with blanks to
\* trim and an argument, a command that is not allowlisted, one with an
\* operator, one the parse throws on, and a marker line that ends in a
\* carriage return
BashLines ==
    {<<"x">>, <<"!", "l", "s">>, <<"!", SP, "l", "s", SP, "x", SP>>, <<"!", "r", "m">>,
     <<"!", "l", "s", ";", "x">>, <<"!", "l", "s", SP, "$", "{">>, <<"!", "l", "s", CR>>}

BashBodies == TextsOf(BashLines, {<<NL>>}, MaxLines)

\* a call processBashCommands(body)
InitBash ==
    /\ \E body \in BashBodies : bash = NewBash(body)
    /\ spawned = <<>> /\ running = {} /\ spliced = <<>>
    /\ bashOut = Pending
    /\ pure = NoPure /\ fs = NoFiles /\ incIn = NoCall /\ stack = <<>>
    /\ checks = <<>> /\ reads = <<>> /\ incOut = NoOut /\ phase = "bash" /\ calls = NoCalls /\ tree = NoTree

SpecBash == InitBash /\ [][NextBash]_vars

----------------------------------------------------------------------------
(* Properties of processBashCommands                                       *)

\* validateCommand applied to the trimmed line of marker k of the call
ValidationOf(k) == validateCommand(Trim(bash.matches[k].line))

\* every child process was spawned with the command and args of an allowed
\* validation of its own marker's line
SpawnedAsValidated ==
    \A k \in 1..Len(spawned) :
        LET v == ValidationOf(spawned[k].marker)
        IN  /\ ~v.threw /\ v.allowed
            /\ spawned[k].command = v.command /\ spawned[k].args = v.args

\* a spawn is made in the step that validates the line of the marker the
\* loop is at, with the result of that validation
SpawnFollowsValidation ==
    Len(spawned') > Len(spawned) =>
        /\ bash.pc = "loop" /\ bash.idx <= Len(bash.matches)
        /\ LET v == validateCommand(Trim(bash.matches[bash.idx].line))
           IN  /\ v.allowed
               /\ spawned' = Append(spawned, [marker |-> bash.idx, command |-> v.command,
                                              args |-> v.args])

\* C1: each child process is spawned with exactly the command and args of a
\* validateCommand result with allowed = true, computed for the same
\* marker's line in the step of the spawn; no process is spawned for a marker
\* whose validation result has allowed = false
C1_SpawnUsesOwnValidation == [](SpawnedAsValidated) /\ [][SpawnFollowsValidation]_vars

\* two commands with different arguments were spawned in one call
C1_Witness ==
    /\ Len(spawned) = 2
    /\ spawned[1].args # spawned[2].args
    /\ bash.matches[1].line # bash.matches[2].line

\* the loop stands at a marker whose line the validator rejects
AtRejectedMarker ==
    /\ bash.pc = "loop" /\ bash.idx <= Len(bash.matches)
    /\ ~ValidationOf(bash.idx).threw /\ ~ValidationOf(bash.idx).allowed

\* the step taken at a rejected marker fails the call with the
\* command-not-allowed error of that line and spawns nothing
RejectionFailsAtOnce ==
    AtRejectedMarker =>
        /\ bashOut'.status = "threw" /\ bashOut'.body = <<>>
        /\ bashOut'.error = CommandNotAllowed(Trim(bash.matches[bash.idx].line),
                                              ValidationOf(bash.idx).error)
        /\ bashOut'.at = bash.idx
        /\ bash'.pc = "done"
        /\ spawned' = spawned

\* after a command-not-allowed failure at marker k, only markers before k
\* have been spawned, nothing is running and no body is returned
RejectedNothingAfter ==
    (bashOut.status = "threw" /\ bashOut.error.kind = "Command not allowed") =>
        /\ \A k \in 1..Len(spawned) : spawned[k].marker < bashOut.at
        /\ running = {}
        /\ bashOut.body = <<>>
        /\ bash.pc = "done"

\* a call that is over spawns nothing more and keeps its outcome
DoneIsFinal == bash.pc = "done" => UNCHANGED <<spawned, bashOut>>

\* C9: if the validator rejects the line of marker k, the call fails at once
\* with a command-not-allowed error carrying the command line and the
\* validator's reason; the command of marker k is not spawned, no command of
\* a later marker is spawned, and no body is returned
C9_RejectionAbortsCall ==
    /\ [][RejectionFailsAtOnce]_vars
    /\ [](RejectedNothingAfter)
    /\ [][DoneIsFinal]_vars

\* the second of three markers was rejected after the first had run
C9_Witness ==
    /\ bashOut.status = "threw" /\ bashOut.error.kind = "Command not allowed"
    /\ bashOut.at = 2 /\ Len(bash.matches) = 3 /\ Len(spawned) = 1
    /\ bashOut.error.reason.kind = "is not in the allowlist"

\* the k-th spawn of the call is the one of the k-th marker, at most one
\* child is running, and it is the one spawned last
SequentialSpawns ==
    /\ Cardinality(running) <= 1
    /\ \A k \in 1..Len(spawned) : spawned[k].marker = k
    /\ \A k \in 1..Len(spliced) : spliced[k].marker = k
    /\ running \subseteq {Len(spawned)}
    /\ Len(spliced) <= Len(spawned) /\ Len(spawned) <= Len(spliced) + 1

\* a spawn is made only when every command spawned before has completed and
\* its output has been spliced into the result
SpawnAfterSplice ==
    Len(spawned') > Len(spawned) =>
        /\ running = {}
        /\ Len(spliced) = Len(spawned)
        /\ bash.idx = Len(spawned) + 1

\* C10: commands are spawned in document order of their markers and at most
\* one child process of the call is running at any time; the command of
\* marker i+1 is validated and spawned only after the command of marker i
\* has completed and its output has been spliced
C10_OneChildAtATime == [](SequentialSpawns) /\ [][SpawnAfterSplice]_vars

\* the third command is running after the first two were spliced
C10_Witness == Len(spawned) = 3 /\ running = {3} /\ Len(spliced) = 2

\* the trimmed line of the marker at which the call failed
FailedLine == Trim(bash.matches[bashOut.at].line)

\* the promise of the child spawned last was rejected
ExecutionFailed == bash.settled.kind \in {r.kind : r \in Rejections}

\* a rejected execution fails the call, with the timeout error when the
\* child was killed at the timeout and with the command-failed error, made
\* of the command line and the message of the rejection, otherwise
FailureReported ==
    ExecutionFailed =>
        /\ bash.pc = "done" /\ bashOut.status = "threw" /\ bashOut.body = <<>>
        /\ bashOut.error =
              IF bash.settled.kind = "timeout" THEN CommandTimeout(FailedLine)
              ELSE CommandFailed(FailedLine, bash.settled.message)

\* the two errors are thrown for a rejected execution only
FailureOnlyReported ==
    /\ bashOut.error.kind = "Command timeout" => bash.settled.kind = "timeout"
    /\ bashOut.error.kind = "Command failed" =>
            bash.settled.kind \in {"nonzero", "spawn", "maxBuffer"}

\* C11: the call reports the timeout error for a command exactly when its
\* child process was killed because the timeout expired; a child that exits
\* with an error code, that cannot be started or whose output exceeds the
\* buffer cap is reported as the command-failed error, which carries the
\* trimmed command line and the message of the underlying error
C11_TimeoutOnlyWhenKilled == FailureReported /\ FailureOnlyReported

\* the second command was killed for its output and reported as failed, the
\* first having run
C11_Witness ==
    /\ bash.settled.kind = "maxBuffer" /\ bashOut.at = 2
    /\ bashOut.error.kind = "Command failed"
    /\ bashOut.error.reason = ExecMessage("stdout maxBuffer length exceeded")
    /\ bashOut.error.cmd = <<"l", "s", SP, "x">>

RECURSIVE SplicedAt(_, _, _, _, _)
\* content from position pos on, with the span of each match from the k-th
\* on replaced, at the position of the match, by the part given for it
SplicedAt(content, matches, parts, k, pos) ==
    IF k > Len(matches) THEN From(content, pos)
    ELSE SubSeq(content, pos, matches[k].index - 1) \o parts[k]
         \o SplicedAt(content, matches, parts, k + 1, matches[k].index + Len(matches[k].full))

\* what stands in for the k-th command marker: its sanitized output, after
\* a newline if the match began with one
CommandParts ==
    [k \in 1..Len(spliced) |->
        (IF StartsWith(bash.matches[k].full, <<NL>>) THEN <<NL>> ELSE <<>>)
            \o spliced[k].output]

\* a call of processBashCommands on its own has returned
BashReturned == phase = "bash" /\ bashOut.status = "returned"

\* C17 as stated: when processBashCommands succeeds, the returned body is
\* the original body with the span of each matched marker replaced, at that
\* marker's own position, by its sanitized output (after one newline if the
\* match began with one), the text outside the spans being unchanged; this
\* holds also when the output of an earlier command holds the text of a
\* later marker
C17_AsClaimed ==
    BashReturned => bashOut.body = SplicedAt(bash.content, bash.matches, CommandParts, 1, 1)

\* the first command wrote the text of the second marker, and the output of
\* the second command took the place of that text, the second marker being
\* left in the body
C17_Witness ==
    /\ BashReturned
    /\ bash.content = <<"x", NL, "!", "l", "s", NL, "!", "l", "s">>
    /\ Len(spliced) = 2
    /\ spliced[1].output = <<"!", "l", "s">> /\ spliced[2].output = <<"o">>
    /\ bashOut.body = <<"x", NL, "o", NL, "!", "l", "s">>

\* the text the claim splices for a child that wrote stdout and stderr
SelectedOutput(stdout, stderr) ==
    IF stdout # <<>> THEN sanitizeOutput(stdout)
    ELSE IF stderr # <<>> THEN sanitizeOutput(stderr)
    ELSE <<>>

\* the text given to the splice of every command that has run is the one
\* selected from what its child wrote
SplicedAsSelected ==
    \A k \in 1..Len(spliced) :
        spliced[k].output = SelectedOutput(spliced[k].stdout, spliced[k].stderr)

\* every child wrote to stdout
AllWroteStdout == \A k \in 1..Len(spliced) : spliced[k].stdout # <<>>

\* the body returned holds the character that the children write to stderr
\* only, and that no body and no stdout of the model holds
HoldsStderr == Contains(bashOut.body, <<"e">>)

\* C20: for each command that ran with success, the text spliced into the
\* body is sanitizeOutput(stdout) when stdout is not empty,
\* sanitizeOutput(stderr) when stdout is empty and stderr is not, and the
\* empty string when both are empty; what was written to stderr is not in
\* the body when stdout is not empty
C20_StdoutThenStderr ==
    /\ phase = "bash" => SplicedAsSelected
    /\ (BashReturned /\ AllWroteStdout) => ~HoldsStderr

\* of two commands the first wrote to both streams and the second to stderr
\* only: the body holds the stdout of the first and the stderr of the second
C20_Witness ==
    /\ BashReturned /\ Len(spliced) = 2
    /\ spliced[1].stdout = <<"o", ESC>> /\ spliced[1].stderr = <<"e">>
    /\ spliced[2].stdout = <<>> /\ spliced[2].stderr = <<"e">>
    /\ bash.content = <<"!", "l", "s", NL, "!", SP, "l", "s", SP, "x", SP>>
    /\ bashOut.body = <<"o", NL, "e">>

\* the array the loop runs over is input, and the line the loop is about
\* to validate is a line of input
ScannedOnce(input) ==
    /\ bash.pc # "enter" => bash.matches = input
    /\ (bash.pc = "loop" /\ bash.idx <= Len(bash.matches)) =>
          /\ bash.idx <= Len(input)
          /\ commandString(bash) = Trim(input[bash.idx].line)

\* the k-th child process was spawned for the k-th marker of input, and the
\* child spawned last, with the command and args of its line (spawned only
\* grows at its end, so that this is checked of every child when it is
\* spawned)
SpawnedFromInput(input) ==
    /\ Len(spawned) <= Len(input)
    /\ \A k \in 1..Len(spawned) : spawned[k].marker = k
    /\ \A k \in {Len(spawned)} \ {0} :
          \A validation \in {validateCommand(Trim(input[k].line))} :
              /\ spawned[k].command = validation.command
              /\ spawned[k].args = validation.args

\* C21: the command lines that one call of processBashCommands validates
\* and executes are fixed by one scan of the body it was given: the array
\* the loop runs over is that scan, every spawn is for a marker of it, a
\* call that returns has spawned as many children as the scan has markers,
\* and a command line that is only in the output of a child is neither
\* validated nor executed
C21_ScannedOnce ==
    phase = "bash" =>
        \A input \in {CommandMatches(bash.content)} :
            /\ ScannedOnce(input)
            /\ SpawnedFromInput(input)
            /\ BashReturned => Len(spawned) = Len(input)

\* both children wrote the marker of a command without arguments, which the
\* body returned holds twice, and only the two commands of the body given,
\* which have an argument, were spawned
C21_Witness ==
    /\ BashReturned /\ Len(spawned) = 2
    /\ \A k \in 1..2 : spliced[k].output = <<"!", "l", "s">> /\ spawned[k].args # <<>>
    /\ Len(CommandMatches(bashOut.body)) = 2
    /\ \A k \in 1..2 : validateCommand(Trim(CommandMatches(bashOut.body)[k].line)).args = <<>>

----------------------------------------------------------------------------
(* replaceArguments, and the three passes applied one after the other       *)

RECURSIVE ReplaceAllFrom(_, _, _, _)
\* s.replace(/pattern/g, repl) for a pattern without special characters,
\* from position i on: every occurrence, left to right, is replaced by the
\* substitution of repl, whose $-patterns refer to the text around the match
ReplaceAllFrom(s, i, pattern, repl) ==
    IF i > Len(s) THEN <<>>
    ELSE IF StartsWith(From(s, i), pattern)
    THEN GetSubstitution(repl, pattern, SubSeq(s, 1, i - 1), From(s, i + Len(pattern)))
         \o ReplaceAllFrom(s, i + Len(pattern), pattern, repl)
    ELSE <<s[i]>> \o ReplaceAllFrom(s, i + 1, pattern, repl)

ReplaceAll(s, pattern, repl) == ReplaceAllFrom(s, 1, pattern, repl)

\* the placeholder of all arguments
ARGUMENTS == <<"$", "A", "R", "G", "U", "M", "E", "N", "T", "S">>

\* the digits of the positional placeholders $1 to $9
PositionalDigits == <<"1", "2", "3", "4", "5", "6", "7", "8", "9">>

\* Array.isArray(args) ? args : (args ? [args] : []); args is given as
\* [isArray, value], value being the array or the string
argsArray(args) ==
    IF args.isArray THEN args.value
    ELSE IF args.value # <<>> THEN <<args.value>>
    ELSE <<>>

\* argsArray[i - 1] || ''
PositionalValue(array, i) == IF i <= Len(array) THEN array[i] ELSE <<>>

RECURSIVE ReplacePositional(_, _, _)
\* the loop over $1 to $9, each replacement made on the result of the one
\* before
ReplacePositional(result, array, i) ==
    IF i > Len(PositionalDigits) THEN result
    ELSE CHOOSE r \in {ReplacePositional(next, array, i + 1) :
                         next \in {ReplaceAll(result, <<"$", PositionalDigits[i]>>,
                                              PositionalValue(array, i))}} : TRUE

replaceArguments(content, args) ==
    IF content = <<>> THEN content
    ELSE CHOOSE r \in {ReplacePositional(replaced, argsArray(args), 1) :
                         replaced \in {ReplaceAll(content, ARGUMENTS,
                                                  Join(argsArray(args), <<SP>>))}} : TRUE

\* the most words a template is made of
MaxParts == 2

PipeWords ==
    {<<"x">>, IncD, <<"!", "l", "s">>, <<"$", "1">>, ARGUMENTS, <<"@">>}

Templates == TextsOf(PipeWords, {<<SP>>, <<NL>>}, MaxParts)

\* the arguments of a template: none, an array that names a file, an array
\* of one plain word, a string that is a command line
TemplateArgs ==
    {[isArray |-> TRUE, value |-> <<>>], [isArray |-> TRUE, value |-> <<IncD>>],
     [isArray |-> TRUE, value |-> << <<"y">> >>],
     [isArray |-> FALSE, value |-> <<"!", "l", "s">>]}

\* texts without a marker that hold a replacement pattern of
\* String.prototype.replace
DollarTexts == {<<"$", "$">>, <<"$", BT>>, <<"$", "'">>}

\* the file systems in which only the file d varies, and those in which it
\* holds a replacement pattern
PipeFileSystems ==
    LET plain == {f \in FileSystems : f[FileA] = Data(<<"x">>)}
    IN  plain \cup {[f EXCEPT ![FileD] = Data(text)] :
                        f \in {g \in plain : g[FileD] = Data(<<"w">>)}, text \in DollarTexts}

InitPipe ==
    /\ \E t \in Templates, a \in TemplateArgs :
          pure = [fn |-> "replaceArguments", in |-> [content |-> t, args |-> a],
                  out |-> <<>>, done |-> FALSE]
    /\ fs \in PipeFileSystems
    /\ incIn = NoCall /\ stack = <<>> /\ checks = <<>> /\ reads = <<>> /\ incOut = NoOut
    /\ bash = NoBash /\ spawned = <<>> /\ running = {} /\ spliced = <<>>
    /\ bashOut = NoOut /\ phase = "arguments" /\ calls = NoCalls /\ tree = NoTree

\* replaceArguments(content, args) returns, and processFileIncludes is
\* called with what it returned
CallReplaceArguments ==
    /\ phase = "arguments" /\ ~pure.done
    /\ \E body \in {replaceArguments(pure.in.content, pure.in.args)} :
          /\ pure' = [pure EXCEPT !.out = body, !.done = TRUE]
          /\ incIn' = [content |-> body, basePath |-> BasePath, depth |-> 0]
          /\ stack' = <<NewFrame(body, BasePath, 0)>>
    /\ incOut' = Pending
    /\ phase' = "includes"
    /\ UNCHANGED <<fs, checks, reads, bash, spawned, running, spliced, bashOut, calls, tree>>

\* processFileIncludes has returned, and processBashCommands is called with
\* what it returned
CallProcessBashCommands ==
    /\ phase = "includes" /\ incOut.status = "returned"
    /\ bash' = NewBash(incOut.body)
    /\ bashOut' = Pending
    /\ phase' = "commands"
    /\ UNCHANGED <<pure, fs, incIn, stack, checks, reads, incOut, spawned, running, spliced,
                   calls, tree>>

NextPipe == CallReplaceArguments \/ NextInc \/ CallProcessBashCommands \/ NextBash

SpecPipe == InitPipe /\ [][NextPipe]_vars

\* the three passes have been applied in order and each has returned
PipelineCompleted ==
    /\ pure.fn = "replaceArguments" /\ pure.done
    /\ incOut.status = "returned" /\ bashOut.status = "returned"

\* C7 as stated: when replaceArguments, processFileIncludes and
\* processBashCommands have been applied in that order and all three have
\* completed without error, the returned body holds no text that matches the
\* include-marker pattern and none that matches the command-marker pattern
C7_AsClaimed ==
    PipelineCompleted =>
        /\ IncludeMatches(bashOut.body) = <<>>
        /\ CommandMatches(bashOut.body) = <<>>

\* the template @d, the file d holding $&, came back as @d
C7_Witness ==
    /\ PipelineCompleted
    /\ pure.in.content = IncD /\ fs[FileD] = Data(<<"$", "&">>)
    /\ bashOut.body = IncD

----------------------------------------------------------------------------
(* One call of replaceArguments on a body of positional placeholders       *)

\* the most placeholders of a body, and the most arguments of a list
MaxPlaceholders == 2
MaxArgs == 2

\* the placeholders the bodies are made of: two that may have an argument
\* and one that never has
Placeholders == {1, 2, 3}

\* the placeholder $i
Placeholder(i) == <<"$", PositionalDigits[i]>>

\* bodies made only of placeholders, given by their digits
PlaceholderBodies == UNION {[1..n -> Placeholders] : n \in 1..MaxPlaceholders}

RECURSIVE BodyOf(_)
\* the text of a body of placeholders
BodyOf(digits) ==
    IF digits = <<>> THEN <<>> ELSE Placeholder(Head(digits)) \o BodyOf(Tail(digits))

\* argument values: a plain one, and ones that hold a placeholder, a
\* replacement pattern of String.prototype.replace or a lone dollar
ArgValues == {<<"x">>, <<"$", "2">>, <<"$", "$">>, <<"$", "&">>, <<"$">>, ARGUMENTS}

ArgLists == UNION {[1..n -> ArgValues] : n \in 0..MaxArgs}

InitArgs ==
    /\ \E digits \in PlaceholderBodies, list \in ArgLists :
          pure = [fn |-> "replaceArguments",
                  in |-> [content |-> BodyOf(digits), args |-> [isArray |-> TRUE, value |-> list],
                          digits |-> digits],
                  out |-> <<>>, done |-> FALSE]
    /\ PassesIdle

\* the call replaceArguments(content, args) on its own
CallReplaceArgumentsAlone ==
    /\ pure.fn = "replaceArguments" /\ ~pure.done /\ phase = "none"
    /\ \E body \in {replaceArguments(pure.in.content, pure.in.args)} :
          pure' = [pure EXCEPT !.out = body, !.done = TRUE]
    /\ PureFrame

SpecArgs == InitArgs /\ [][CallReplaceArgumentsAlone]_vars

RECURSIVE ArgumentsOf(_, _)
\* the arguments the placeholders stand for, one after the other, the empty
\* string standing for an argument that is not given
ArgumentsOf(digits, list) ==
    IF digits = <<>> THEN <<>>
    ELSE (IF Head(digits) <= Len(list) THEN list[Head(digits)] ELSE <<>>)
         \o ArgumentsOf(Tail(digits), list)

\* a call of replaceArguments on a body of placeholders has returned
ArgsReplaced == pure.fn = "replaceArguments" /\ pure.done /\ phase = "none"

\* C12 as stated: for every list of arguments, replaceArguments applied to a
\* body made only of placeholders $1..$9 returns the body in which each $i
\* is replaced by argument i character for character, or by the empty
\* string when the list has fewer than i arguments
C12_AsClaimed ==
    ArgsReplaced => pure.out = ArgumentsOf(pure.in.digits, pure.in.args.value)

\* the body $1 with the argument $$ came back as a single dollar
C12_Witness ==
    /\ ArgsReplaced
    /\ pure.in.content = <<"$", "1">> /\ pure.in.args.value = << <<"$", "$">> >>
    /\ pure.out = <<"$">>

----------------------------------------------------------------------------
(* One call of sanitizeOutput                                               *)

\* the most characters of an output
MaxOutputLen == 3

\* the characters of an output: a printable one, the three control
\* characters that are kept, control characters that are dropped, and the
\* characters at the edges of the ranges
OutputChars == {"a", TAB, NL, CR, NUL, ESC, US, SP, DEL, PAD, ASTRAL}

\* the outputs: every text of up to MaxOutputLen characters, and the text
\* a NUL b TAB c NL
RawOutputs ==
    UNION {[1..n -> OutputChars] : n \in 0..MaxOutputLen}
        \cup {<<"a", NUL, "b", TAB, "c", NL>>}

InitSanitize ==
    /\ \E output \in RawOutputs :
          pure = [fn |-> "sanitizeOutput", in |-> output, out |-> <<>>, done |-> FALSE]
    /\ PassesIdle

\* the call sanitizeOutput(output)
CallSanitizeOutput ==
    /\ pure.fn = "sanitizeOutput" /\ ~pure.done
    /\ pure' = [pure EXCEPT !.out = sanitizeOutput(pure.in), !.done = TRUE]
    /\ PureFrame

SpecSanitize == InitSanitize /\ [][CallSanitizeOutput]_vars

Sanitized == pure.fn = "sanitizeOutput" /\ pure.done

\* the codes the claim keeps
KeptCode(code) == code \in {9, 10, 13} \/ (code >= 32 /\ code # 127)

RECURSIVE IsKeptSubsequence(_, _)
\* out is what is left of in when the characters whose code is not kept are
\* taken out, the others staying as they are and in their order
IsKeptSubsequence(in, out) ==
    IF in = <<>> THEN out = <<>>
    ELSE IF KeptCode(charCodeAt(Head(in)))
    THEN out # <<>> /\ Head(out) = Head(in) /\ IsKeptSubsequence(Tail(in), Tail(out))
    ELSE IsKeptSubsequence(Tail(in), out)

\* C15: for every input string sanitizeOutput returns the subsequence of
\* its characters, in their order, whose code is 9, 10, 13, or at least 32
\* and not 127; every other character is dropped and none is added or
\* altered
C15_KeepsPrintableAndBlanks == Sanitized => IsKeptSubsequence(pure.in, pure.out)

\* a NUL b TAB c NL came back as a b TAB c NL
C15_Witness ==
    /\ Sanitized /\ pure.in = <<"a", NUL, "b", TAB, "c", NL>>
    /\ pure.out = <<"a", "b", TAB, "c", NL>>

----------------------------------------------------------------------------
(* Two calls whose steps interleave                                         *)

\* processFileIncludes, as a function of the chain of calls st: what the
\* call at the top of the chain does up to its next suspension or end
IncludeScan(st, top, matches) ==
    IF Len(matches) = 0 THEN Return(st, top.content)
    ELSE [stack |-> [st EXCEPT ![Len(st)] =
                        [top EXCEPT !.matches = matches, !.idx = 1,
                                    !.result = top.content, !.pc = "loop"]],
          out   |-> Pending]

IncludeEnter(st, top) ==
    IF top.content = <<>> THEN Return(st, top.content)
    ELSE IF DepthExceeded(top.depth)
    THEN Throw(st, SubSeq(st, 1, Len(st) - 1), DepthError)
    ELSE IncludeScan(st, top, IncludeMatches(top.content))

IncludeMarker(st, top, filename) ==
    IF ~PathCheck(top).safe
    THEN Throw(st, SubSeq(st, 1, Len(st) - 1), TraversalError(filename))
    ELSE [stack |-> [st EXCEPT ![Len(st)].pc = "reading"], out |-> Pending]

IncludeRead(st, top, filename, got) ==
    IF got.ok
    THEN [stack |-> Append([st EXCEPT ![Len(st)].pc = "awaiting"], NestedCall(top, got.data)),
          out   |-> Pending]
    ELSE Throw(st, st, FsError(got.code, filename))

IncludeStepAt(st, top) ==
    CASE top.pc = "enter" -> IncludeEnter(st, top)
      [] top.pc = "loop" /\ top.idx <= Len(top.matches) ->
            IncludeMarker(st, top, top.matches[top.idx].name)
      [] top.pc = "reading" ->
            IncludeRead(st, top, top.matches[top.idx].name,
                        ReadFile(Resolve(top.basePath, top.matches[top.idx].name)))
      [] OTHER -> Return(st, top.result)

IncludeStep(st) == IncludeStepAt(st, st[Len(st)])

\* what a child process does is a function of its command and args
ExecKey(validation) == [command |-> validation.command, args |-> validation.args]

\* processBashCommands, as a function of its locals b and of what the
\* commands do: what the call does up to its next suspension or end
BashScan(b, matches) ==
    IF Len(matches) = 0 THEN BashReturn(b, b.content)
    ELSE [bash |-> [b EXCEPT !.matches = matches, !.idx = 1, !.result = b.content,
                             !.pc = "loop"],
          out  |-> Pending]

BashSpawn(b, validation) ==
    IF validation.threw THEN BashThrow(b, BadSubstitution(commandString(b)))
    ELSE IF ~validation.allowed
    THEN BashThrow(b, CommandNotAllowed(commandString(b), validation.error))
    ELSE [bash |-> Await(b), out |-> Pending]

BashSettle(b, outcome) ==
    IF outcome.kind = "exit"
    THEN [bash |-> [b EXCEPT !.settled = outcome,
                             !.result = SpliceCommand(b.result, b.matches[b.idx].full,
                                           sanitizeOutput(FirstTruthy(outcome.stdout,
                                                                      outcome.stderr))),
                             !.idx = b.idx + 1, !.pc = "loop"],
          out  |-> Pending]
    ELSE BashThrow([b EXCEPT !.settled = outcome], Caught(commandString(b), outcome))

BashStep(b, exec) ==
    CASE b.pc = "enter" ->
            IF b.content = <<>> THEN BashReturn(b, b.content)
            ELSE BashScan(b, CommandMatches(b.content))
      [] b.pc = "loop" /\ b.idx <= Len(b.matches) -> BashSpawn(b, Validation(b))
      [] b.pc = "awaiting" -> BashSettle(b, exec[ExecKey(Validation(b))])
      [] OTHER -> BashReturn(b, b.result)

\* the locals of a call that has not been made
NoLocals == [kind |-> "none", stack |-> <<>>, bash |-> NoBash, out |-> NoOut]

\* the locals of a call at its start
NewLocals(input) ==
    IF input.kind = "includes"
    THEN [kind |-> "includes", stack |-> <<NewFrame(input.content, BasePath, 0)>>,
          bash |-> NoBash, out |-> Pending]
    ELSE [kind |-> "commands", stack |-> <<>>, bash |-> NewBash(input.content),
          out |-> Pending]

IncludeResumed(locals, next) == [locals EXCEPT !.stack = next.stack, !.out = next.out]
BashResumed(locals, next) == [locals EXCEPT !.bash = next.bash, !.out = next.out]

\* the call with these locals runs up to its next suspension or end
Resume(locals, exec) ==
    IF locals.kind = "includes" THEN IncludeResumed(locals, IncludeStep(locals.stack))
    ELSE BashResumed(locals, BashStep(locals.bash, exec))

\* mutant: the locals of every call are kept in one place of the module
ModuleLevel(id) == 1

\* where the locals of call id are kept: content, matches, result and the
\* loop position are locals of the call, and so are the two patterns
Local(id) == id

\* the two calls
CallIds == {1, 2}

\* what the two calls are given
TwoInputs ==
    {[kind |-> "includes", content |-> c] :
        c \in {<<"x">>, IncA, IncA \o <<SP>> \o IncD, IncMissing}}
      \cup {[kind |-> "commands", content |-> c] :
        c \in {<<"!", "l", "s">>, <<"!", "l", "s", NL, "!", "l", "s", SP, "x">>,
               <<"!", "r", "m">>}}

\* the file systems of the two calls
TwoFileSystems ==
    {f \in FileSystems :
        /\ f[FileA] \in {Data(<<"x">>), Data(IncD \o <<SP>> \o IncMissing)}
        /\ f[FileD] \in {Data(<<"w">>), Fails("EACCES")}}

\* the two commands the inputs hold
TwoCommands ==
    {[command |-> <<"l", "s">>, args |-> <<>>],
     [command |-> <<"l", "s">>, args |-> << <<"x">> >>]}

\* what the commands do, each command doing the same every time it is run
TwoExecs ==
    {e \in [TwoCommands -> {o \in Outcomes :
                               \/ o.kind = "timeout"
                               \/ o.kind = "exit" /\ o.stderr = <<>>
                                     /\ o.stdout \in {<<>>, <<"o", ESC>>}}] :
        e[[command |-> <<"l", "s">>, args |-> << <<"x">> >>]].kind = "exit"}

InitTwo ==
    /\ fs \in TwoFileSystems
    /\ \E first \in TwoInputs, second \in TwoInputs, exec \in TwoExecs :
          calls = [input |-> <<first, second>>, started |-> <<FALSE, FALSE>>,
                   locals |-> <<NoLocals, NoLocals>>, result |-> <<NoOut, NoOut>>,
                   exec |-> exec]
    /\ pure = NoPure /\ incIn = NoCall /\ stack = <<>> /\ checks = <<>> /\ reads = <<>>
    /\ incOut = NoOut /\ bash = NoBash /\ spawned = <<>> /\ running = {}
    /\ spliced = <<>> /\ bashOut = NoOut /\ phase = "two calls" /\ tree = NoTree

TwoFrame ==
    UNCHANGED <<pure, fs, incIn, stack, checks, reads, incOut, bash, spawned, running,
                spliced, bashOut, phase, tree>>

\* call id is made
StartCall(id) ==
    /\ ~calls.started[id]
    /\ calls' = [calls EXCEPT !.started[id] = TRUE,
                              !.locals[Local(id)] = NewLocals(calls.input[id]),
                              !.result[id] = Pending]
    /\ TwoFrame

\* call id, which is suspended or has just been made, runs up to its next
\* suspension or to its end; at its end its promise settles
ResumeCall(id) ==
    /\ calls.started[id] /\ calls.result[id].status = "pending"
    /\ calls.locals[Local(id)].out.status = "pending"
    /\ \E next \in {Resume(calls.locals[Local(id)], calls.exec)} :
          calls' = [calls EXCEPT !.locals[Local(id)] = next, !.result[id] = next.out]
    /\ TwoFrame

NextTwo == \E id \in CallIds : StartCall(id) \/ ResumeCall(id)

SpecTwo == InitTwo /\ [][NextTwo]_vars

\* the most steps a call of the model takes
RunFuel == 30

RECURSIVE Run(_, _, _)
\* the outcome of the call with these locals when nothing else runs
Run(locals, exec, fuel) ==
    IF locals.out.status # "pending" \/ fuel = 0 THEN locals.out
    ELSE Run(Resume(locals, exec), exec, fuel - 1)

\* call id has settled
Settled(id) == calls.started[id] /\ calls.result[id].status \in {"returned", "threw"}

\* C16: for two calls of processFileIncludes and processBashCommands whose
\* steps interleave at their suspension points, over a file system that does
\* not change and commands that do the same every time, each call settles
\* with the result or the error it settles with when it runs alone
C16_CallsIndependent ==
    \A id \in CallIds :
        Settled(id) => calls.result[id] = Run(NewLocals(calls.input[id]), calls.exec, RunFuel)

\* the first call returned a body with an included file in it while the
\* second, made before, was suspended at its second command
C16_Witness ==
    /\ Settled(1) /\ calls.result[1].status = "returned"
    /\ calls.input[1].content = IncA \o <<SP>> \o IncD
    /\ calls.result[1].body = <<"x", SP, "w">>
    /\ calls.started[2] /\ calls.locals[2].kind = "commands"
    /\ calls.locals[2].bash.pc = "awaiting" /\ calls.locals[2].bash.idx = 2

----------------------------------------------------------------------------
(* What processFileIncludes puts in the place of a marker                  *)

\* the locals of the recursive call made for the content of an included file
NestedLocals(fileContent) ==
    [kind |-> "includes", stack |-> <<NewFrame(fileContent, incIn.basePath, 1)>>,
     bash |-> NoBash, out |-> Pending]

\* the resolved content of the file a marker of the body names: what the
\* recursive call made for it returns
Resolved(name) ==
    Run(NestedLocals(ReadFile(Resolve(incIn.basePath, name)).data), <<>>, RunFuel).body

\* what the claim puts in the place of the k-th marker of the body: the
\* resolved content, after one space if a whitespace character comes before
\* the marker
IncludeParts ==
    LET matches == IncludeMatches(incIn.content)
    IN  [k \in 1..Len(matches) |->
            (IF IsSpace(Head(matches[k].full)) THEN <<SP>> ELSE <<>>)
                \o Resolved(matches[k].name)]

\* a call of processFileIncludes on its own has returned
IncReturned == phase = "includes" /\ incOut.status = "returned"

\* C18 as stated: for every include marker that a whitespace character
\* (space, tab or newline) comes before, the successful result holds one
\* space and the resolved content in the place of the whitespace and the
\* marker; for a marker at the very start of the text it holds the resolved
\* content with no space added
C18_AsClaimed ==
    IncReturned =>
        incOut.body = SplicedAt(incIn.content, IncludeMatches(incIn.content),
                                IncludeParts, 1, 1)

\* a marker after a newline: the file was put in the place of the newline
\* and the marker with no space before it
C18_Witness ==
    /\ IncReturned
    /\ incIn.content = <<"x", NL>> \o IncA /\ fs[FileA] = Data(<<"x">>)
    /\ incOut.body = <<"x", "x">>

----------------------------------------------------------------------------
(* A file without markers, included into a body                            *)

\* the body "see @f" of the claim: a word, a space and the marker of d
SeeBody == <<"x", SP>> \o IncD

\* processFileIncludes has returned in an expansion of the body "see @f",
\* the file holding no include marker
SeeResolved ==
    /\ pure.fn = "replaceArguments" /\ pure.done /\ incOut.status = "returned"
    /\ incIn.content = SeeBody /\ incIn.depth = 0
    /\ fs[FileD].ok /\ IncludeMatches(fs[FileD].data) = <<>>

\* the example of the claim: the template "$1 @d" with the argument y, the
\* file d holding w
ExampleResolved ==
    /\ pure.fn = "replaceArguments" /\ pure.done /\ incOut.status = "returned"
    /\ pure.in.content = <<"$", "1", SP>> \o IncD
    /\ pure.in.args = [isArray |-> TRUE, value |-> << <<"y">> >>]
    /\ fs[FileD] = Data(<<"w">>)

\* C19 as stated: for every file content without an include marker, the
\* body "see @f" resolved at depth 0 comes back as "see " followed by the
\* content character for character, whatever the content holds ($&, $$, $BT
\* and $' included); and the template "Hello $1, see @notes.txt" with the
\* argument world and the file holding done expands to "Hello world, see
\* done"
C19_AsClaimed ==
    /\ SeeResolved => incOut.body = <<"x", SP>> \o fs[FileD].data
    /\ ExampleResolved => incOut.body = <<"y", SP, "w">>

\* the file held two dollars and one dollar came back
C19_Witness ==
    /\ SeeResolved /\ fs[FileD] = Data(<<"$", "$">>)
    /\ incOut.body = <<"x", SP, "$">>

----------------------------------------------------------------------------
(* processFileIncludes with included files in a subdirectory               *)

\* a subdirectory n of the base directory, with files a and d in it
SubDirectory == <<"/", "b", "/", "n">>
FileNA == <<"/", "b", "/", "n", "/", "a">>
FileND == <<"/", "b", "/", "n", "/", "d">>

IncNA == <<"@", "n", "/", "a">>
IncND == <<"@", "n", "/", "d">>

\* the file systems with a subdirectory: the file a of the subdirectory
\* names d, n/d, its own name from the base or the file a of the base; d
\* exists in the base, in the subdirectory, in both or in neither
SubFileSystems ==
    {[p \in {FileA, FileD, FileNA, FileND} |->
         CASE p = FileA -> t[1] [] p = FileD -> t[2] [] p = FileNA -> t[3] [] OTHER -> t[4]] :
       t \in {Data(<<"x">>), Data(IncNA), Data(IncD)}
               \X {Data(<<"w">>), Fails("ENOENT")}
               \X {Data(IncD), Data(IncND), Data(IncNA), Data(IncA), Data(<<"y">>)}
               \X {Data(<<"v">>), Fails("ENOENT")}}

SubBodies == TextsOf({<<"x">>, IncNA, IncA, IncD}, {<<SP>>, <<NL>>}, MaxWords)

\* a call processFileIncludes(body, basePath) with the default depth 0, the
\* base being the base directory or its subdirectory
InitSub ==
    /\ fs \in SubFileSystems
    /\ \E body \in SubBodies, basePath \in {BasePath, SubDirectory} :
          incIn = [content |-> body, basePath |-> basePath, depth |-> 0]
    /\ stack = <<NewFrame(incIn.content, incIn.basePath, incIn.depth)>>
    /\ checks = <<>> /\ reads = <<>>
    /\ incOut = Pending
    /\ pure = NoPure /\ bash = NoBash /\ spawned = <<>> /\ running = {}
    /\ spliced = <<>>
    /\ bashOut = NoOut /\ phase = "includes" /\ calls = NoCalls /\ tree = NoTree

SpecSub == InitSub /\ [][NextInc]_vars

\* every call of the chain has the base of the top-level call, and a depth
\* that is one more than that of the call that made it
SameBaseAtEveryLevel ==
    \A i \in 1..Len(stack) :
        /\ stack[i].basePath = incIn.basePath
        /\ stack[i].depth = incIn.depth + (i - 1)

\* every path check was made against the base of the top-level call, and
\* every file read was resolved against it
CheckedAndReadFromBase ==
    /\ \A k \in 1..Len(checks) :
          /\ checks[k].basePath = incIn.basePath
          /\ checks[k].safe = isPathSafe(checks[k].name, incIn.basePath)
    /\ \A k \in 1..Len(reads) :
          reads[k].path = Resolve(incIn.basePath, reads[k].name)

\* C22: at every nesting level of processFileIncludes the base directory of
\* the path check and of the file read is the basePath of the top-level
\* call; the recursion adds exactly 1 to depth per level and leaves basePath
\* unchanged, so that a marker in an included file of a subdirectory is
\* resolved against the original base and not against the directory of the
\* file that holds it
C22_BaseUnchanged ==
    phase = "includes" => SameBaseAtEveryLevel /\ CheckedAndReadFromBase

\* the body included n/a from the base /b; the marker @d in it was read
\* from /b/d although /b/n/d exists, and the body returned is that of /b/d
C22_Witness ==
    /\ incOut.status = "returned" /\ incIn.basePath = BasePath
    /\ incIn.content = IncNA
    /\ fs[FileNA] = Data(IncD) /\ fs[FileND] = Data(<<"v">>) /\ fs[FileD] = Data(<<"w">>)
    /\ Len(reads) = 2
    /\ reads[1].path = FileNA /\ Len(reads[1].at) = 1
    /\ reads[2].path = FileD /\ Len(reads[2].at) = 2
    /\ incOut.body = <<"w">>

----------------------------------------------------------------------------
(* The FileTree component                                                  *)

\* the most fetches one run of the component starts, and the most handlers
\* that are suspended at an await at one time
MaxFetches == 3
MaxHandlers == 2

\* the projects the parent may select, and the paths of their files
Projects == {"p", "q"}
ProjectPaths(project) ==
    IF project = "p" THEN {"f", "g"} ELSE IF project = "q" THEN {"h"} ELSE {}

\* useState([]) and setFiles([]): no file is listed
NoListing == [project |-> "none", fetch |-> 0]
\* setFiles(data): the data of the response to fetch k, made for project
Listing(project, k) == [project |-> project, fetch |-> k]

\* the paths of the listed items
getAllFilePaths(items) == ProjectPaths(items.project)

\* filteredFiles: the listed items that the search query keeps
filteredFiles(t) ==
    {path \in getAllFilePaths(t.files) : t.searchQuery = "" \/ t.searchQuery = path}

\* the state of the component after its first render without a project
MountedTree ==
    [selectedProject |-> "none", files |-> NoListing, loading |-> FALSE,
     searchQuery |-> "", selectedFile |-> "none",
     uploading |-> FALSE, uploadError |-> FALSE,
     deleteConfirm |-> "none", deleting |-> FALSE,
     selectionMode |-> FALSE, selectedFiles |-> {},
     batchDeleting |-> FALSE, batchDownloading |-> FALSE, batchDeleteConfirm |-> FALSE,
     fetches |-> <<>>, handlers |-> <<>>]

\* fetchFiles up to its await: loading is set and the request is sent for
\* the project of the render that made this fetchFiles
fetchFiles(t, project) ==
    [t EXCEPT !.loading = TRUE,
              !.fetches = Append(@, [project |-> project, status |-> "flight"])]

\* fetchFiles after its await: the data of the response, or [] when the
\* response is not ok or the request failed, and loading is cleared
Fetched(t, k, ok) ==
    [t EXCEPT !.files = IF ok THEN Listing(t.fetches[k].project, k) ELSE NoListing,
              !.loading = FALSE,
              !.fetches[k].status = IF ok THEN "ok" ELSE "failed"]

\* mutant: leaving selection mode keeps the selection
ToggleKeepsSelection(t) == [t EXCEPT !.selectionMode = ~@]

\* setSelectionMode(prev => { if (prev) setSelectedFiles(new Set()); return !prev })
toggleSelectionMode(t) ==
    [t EXCEPT !.selectionMode = ~@,
              !.selectedFiles = IF t.selectionMode THEN {} ELSE @]

\* setSelectedFiles(prev => ...): path leaves the set or joins it
toggleFileSelection(t, path) ==
    [t EXCEPT !.selectedFiles = IF path \in @ THEN @ \ {path} ELSE @ \cup {path}]

\* setSelectedFiles(new Set(getAllFilePaths(filteredFiles)))
selectAll(t) == [t EXCEPT !.selectedFiles = filteredFiles(t)]

\* setSelectedFiles(new Set())
deselectAll(t) == [t EXCEPT !.selectedFiles = {}]

\* a handler suspended at the await of its api call, with the project of
\* the render that made it
Suspended(kind, project) == [kind |-> kind, project |-> project, pc |-> "api", fetch |-> 0]

RemoveAt(seq, i) == SubSeq(seq, 1, i - 1) \o SubSeq(seq, i + 1, Len(seq))

\* the finally block of a handler, and for handleBatchDelete the statements
\* after await fetchFiles() when refreshed
Finally(t, kind, refreshed) ==
    CASE kind = "upload" -> [t EXCEPT !.uploading = FALSE]
      [] kind = "delete" -> [t EXCEPT !.deleting = FALSE, !.deleteConfirm = "none"]
      [] kind = "batchDelete" ->
            [t EXCEPT !.batchDeleting = FALSE,
                      !.selectedFiles = IF refreshed THEN {} ELSE @,
                      !.batchDeleteConfirm = IF refreshed THEN FALSE ELSE @]
      [] OTHER -> [t EXCEPT !.batchDownloading = FALSE]

\* the catch block of a handler: setUploadError(...)
Failed(t) == [t EXCEPT !.uploadError = TRUE]

\* the api call of handler i settles: a handler that refreshes calls
\* fetchFiles and is suspended at it, the others run to their end
ApiSettled(t, i, ok) ==
    LET h == t.handlers[i]
    IN  IF ~ok
        THEN [Finally(Failed(t), h.kind, FALSE) EXCEPT !.handlers = RemoveAt(@, i)]
        ELSE IF h.kind = "batchDownload"
        THEN [Finally(t, h.kind, FALSE) EXCEPT !.handlers = RemoveAt(@, i)]
        ELSE [fetchFiles(t, h.project) EXCEPT
                 !.handlers[i] = [h EXCEPT !.pc = "fetch", !.fetch = Len(t.fetches) + 1]]

\* the handlers that await fetch k
Awaiting(t, k) == {i \in 1..Len(t.handlers) : t.handlers[i].pc = "fetch" /\ t.handlers[i].fetch = k}

\* fetch k settles, and the handler that awaits it runs to its end
FetchSettled(t, k, ok) ==
    LET fetched == Fetched(t, k, ok)
    IN  IF Awaiting(t, k) = {} THEN fetched
        ELSE LET i == CHOOSE j \in Awaiting(t, k) : TRUE
             IN  [Finally(fetched, t.handlers[i].kind, TRUE) EXCEPT
                     !.handlers = RemoveAt(@, i)]

\* the fetches that are started or that a suspended handler will start
Planned(t) ==
    Len(t.fetches) + Cardinality({i \in 1..Len(t.handlers) :
                                     t.handlers[i].pc = "api"
                                     /\ t.handlers[i].kind # "batchDownload"})

\* the tree and its toolbar are rendered: if (loading) return the loading view
Rendered == tree # NoTree /\ ~tree.loading

TreeFrame ==
    UNCHANGED <<pure, fs, incIn, stack, checks, reads, incOut, bash, spawned, running,
                spliced, bashOut, phase, calls>>

\* the parent selects another project: the effect on selectedProject runs
SelectProject ==
    /\ Planned(tree) < MaxFetches
    /\ \E project \in Projects \ {tree.selectedProject} :
          tree' = fetchFiles([tree EXCEPT !.selectedProject = project], project)
    /\ TreeFrame

SetSearchQuery ==
    /\ Rendered
    /\ \E query \in {"", "f"} \ {tree.searchQuery} : tree' = [tree EXCEPT !.searchQuery = query]
    /\ TreeFrame

\* the selection mode button
ToggleSelectionMode ==
    /\ Rendered
    /\ tree' = toggleSelectionMode(tree)
    /\ TreeFrame

\* a click on the row of an item
ClickRow ==
    /\ Rendered
    /\ \E path \in filteredFiles(tree) :
          tree' = IF tree.selectionMode THEN toggleFileSelection(tree, path)
                  ELSE [tree EXCEPT !.selectedFile = path]
    /\ tree' # tree
    /\ TreeFrame

\* the checkbox of a row, which is rendered in selection mode
ToggleCheckbox ==
    /\ Rendered /\ tree.selectionMode
    /\ \E path \in filteredFiles(tree) : tree' = toggleFileSelection(tree, path)
    /\ TreeFrame

SelectAll ==
    /\ Rendered /\ tree.selectionMode
    /\ tree' = selectAll(tree) /\ tree' # tree
    /\ TreeFrame

DeselectAll ==
    /\ Rendered /\ tree.selectionMode /\ tree.selectedFiles # {}
    /\ tree' = deselectAll(tree)
    /\ TreeFrame

\* the delete button of the toolbar and the cancel button of its confirmation
SetBatchDeleteConfirm ==
    /\ Rendered /\ tree.selectionMode
    /\ \/ ~tree.batchDeleteConfirm /\ tree.selectedFiles # {}
          /\ tree' = [tree EXCEPT !.batchDeleteConfirm = TRUE]
       \/ tree.batchDeleteConfirm /\ tree' = [tree EXCEPT !.batchDeleteConfirm = FALSE]
    /\ TreeFrame

\* handleBatchDelete up to its first await
HandleBatchDelete ==
    /\ Rendered /\ tree.selectionMode /\ tree.batchDeleteConfirm /\ ~tree.batchDeleting
    /\ tree.selectedFiles # {}
    /\ Planned(tree) < MaxFetches /\ Len(tree.handlers) < MaxHandlers
    /\ tree' = [tree EXCEPT !.batchDeleting = TRUE,
                            !.handlers = Append(@, Suspended("batchDelete",
                                                             tree.selectedProject))]
    /\ TreeFrame

\* handleBatchDownload up to its first await
HandleBatchDownload ==
    /\ Rendered /\ tree.selectionMode /\ ~tree.batchDownloading
    /\ tree.selectedFiles # {}
    /\ Len(tree.handlers) < MaxHandlers
    /\ tree' = [tree EXCEPT !.batchDownloading = TRUE,
                            !.handlers = Append(@, Suspended("batchDownload",
                                                             tree.selectedProject))]
    /\ TreeFrame

\* the delete button of a row and the cancel button of its confirmation,
\* which are rendered outside selection mode
SetDeleteConfirm ==
    /\ Rendered /\ ~tree.selectionMode
    /\ \E path \in (filteredFiles(tree) \cup {"none"}) \ {tree.deleteConfirm} :
          /\ path = "none" => tree.deleteConfirm \in filteredFiles(tree)
          /\ tree' = [tree EXCEPT !.deleteConfirm = path]
    /\ TreeFrame

\* handleDeleteConfirm up to its first await
HandleDeleteConfirm ==
    /\ Rendered /\ ~tree.selectionMode /\ ~tree.deleting
    /\ tree.deleteConfirm \in filteredFiles(tree)
    /\ Planned(tree) < MaxFetches /\ Len(tree.handlers) < MaxHandlers
    /\ tree' = [tree EXCEPT !.deleting = TRUE,
                            !.handlers = Append(@, Suspended("delete", tree.selectedProject))]
    /\ TreeFrame

\* handleFileChange up to its first await, for files chosen after the
\* context menu of an item: a file that is too large ends it at once
HandleFileChange ==
    /\ Rendered /\ filteredFiles(tree) # {}
    /\ \E tooLarge \in BOOLEAN :
          IF tooLarge THEN tree' = Failed(tree) /\ tree' # tree
          ELSE /\ Planned(tree) < MaxFetches /\ Len(tree.handlers) < MaxHandlers
               /\ tree' = [tree EXCEPT !.uploading = TRUE, !.uploadError = FALSE,
                                       !.handlers = Append(@, Suspended("upload",
                                                                        tree.selectedProject))]
    /\ TreeFrame

\* the api call of a suspended handler settles
ApiSettle ==
    /\ tree # NoTree
    /\ \E i \in 1..Len(tree.handlers), ok \in BOOLEAN :
          /\ tree.handlers[i].pc = "api"
          /\ tree' = ApiSettled(tree, i, ok)
    /\ TreeFrame

\* a fetch that is in flight settles, in whatever order the responses come
FetchSettle ==
    /\ tree # NoTree
    /\ \E k \in 1..Len(tree.fetches), ok \in BOOLEAN :
          /\ tree.fetches[k].status = "flight"
          /\ tree' = FetchSettled(tree, k, ok)
    /\ TreeFrame

NextTree ==
    \/ SelectProject \/ SetSearchQuery \/ ToggleSelectionMode \/ ClickRow \/ ToggleCheckbox
    \/ SelectAll \/ DeselectAll \/ SetBatchDeleteConfirm \/ HandleBatchDelete
    \/ HandleBatchDownload \/ SetDeleteConfirm \/ HandleDeleteConfirm \/ HandleFileChange
    \/ ApiSettle \/ FetchSettle

InitTree ==
    /\ tree = MountedTree
    /\ pure = NoPure /\ fs = NoFiles /\ incIn = NoCall /\ stack = <<>>
    /\ checks = <<>> /\ reads = <<>> /\ incOut = NoOut /\ bash = NoBash
    /\ spawned = <<>> /\ running = {} /\ spliced = <<>> /\ bashOut = NoOut
    /\ phase = "file tree" /\ calls = NoCalls

SpecTree == InitTree /\ [][NextTree]_vars

----------------------------------------------------------------------------
(* Properties of the FileTree component                                    *)

\* C23: after any sequence of user actions on the FileTree component
\* (toggle selection mode, click a row, toggle a checkbox, select all,
\* deselect all, batch delete, batch download), whenever selectionMode is
\* false the set selectedFiles is empty
C23_SelectionOnlyInMode ==
    phase = "file tree" => (~tree.selectionMode => tree.selectedFiles = {})

\* selection mode was left while a batch delete of a selection was
\* suspended at its api call: the selection is empty and the confirmation
\* of the batch delete is still set
C23_Witness ==
    /\ phase = "file tree"
    /\ ~tree.selectionMode /\ tree.selectedFiles = {}
    /\ tree.batchDeleting /\ tree.batchDeleteConfirm
    /\ \E i \in 1..Len(tree.handlers) : tree.handlers[i].kind = "batchDelete"

\* the fetches that have not settled
InFlight == {k \in 1..Len(tree.fetches) : tree.fetches[k].status = "flight"}

\* the fetches that were made for the selected project
ForSelected == {k \in 1..Len(tree.fetches) : tree.fetches[k].project = tree.selectedProject}

\* the fetch for the selected project that was started last
LatestForSelected == CHOOSE k \in ForSelected : \A j \in ForSelected : j <= k

\* what fetchFiles makes of the response to fetch k
ResponseOf(k) ==
    IF tree.fetches[k].status = "ok" THEN Listing(tree.fetches[k].project, k) ELSE NoListing

\* C24 as stated: for any interleaving of fetchFiles calls (started by a
\* change of selectedProject or by the refresh after an upload or a delete)
\* and their responses, once no fetch is in flight the files state holds the
\* response of the most recently started fetch for the selected project,
\* and loading is true whenever some fetch is still in flight
C24_AsClaimed ==
    phase = "file tree" =>
        /\ (InFlight = {} /\ ForSelected # {}) => tree.files = ResponseOf(LatestForSelected)
        /\ InFlight # {} => tree.loading

\* the project was changed from p to q while the fetch for p was in flight,
\* and the response for p came after the one for q: no fetch is in flight
\* and the files of p are shown for the project q
C24_Witness ==
    /\ phase = "file tree"
    /\ tree.selectedProject = "q" /\ InFlight = {}
    /\ Len(tree.fetches) = 2 /\ tree.handlers = <<>>
    /\ tree.fetches[1].project = "p" /\ tree.fetches[2] = [project |-> "q", status |-> "ok"]
    /\ tree.files = Listing("p", 1)

\* the response of the second of two fetches came first: loading is false
\* while the first fetch is still in flight
C24_LoadingCleared ==
    /\ phase = "file tree"
    /\ InFlight = {1} /\ Len(tree.fetches) = 2 /\ ~tree.loading

====
